---- MODULE Spec2Model ----
(***************************************************************************)
(* A model of the workflow SWC transform (swc-plugin-workflow):            *)
(*   naming.rs  - identity strings "kind//modulePath//name";               *)
(*   lib.rs     - StepTransform, the VisitMut pass that classifies         *)
(*                functions by their "use step" / "use workflow"           *)
(*                directives and rewrites them per TransformMode.          *)
(*                                                                         *)
(* The specifications share the variables:                                 *)
(*   SpecId      - the identity functions applied to drawn (kind, path,    *)
(*                 name)                                                   *)
(*   SpecScan    - the module-level directive scan over drawn item         *)
(*                 sequences                                               *)
(*   Spec        - one run of the transform over a module holding one      *)
(*                 function-bearing item, in each mode                     *)
(*   SpecObj     - the pass over object literals with step properties      *)
(*   SpecScript  - the pass over a script                                  *)
(*   SpecName    - the naming of an anonymous default workflow export      *)
(*   SpecIds     - every identity string the pass writes                   *)
(*   SpecNested  - the pass over step functions nested in other functions  *)
(*   SpecClosure - the closure analyzer over one function                  *)
(*   SpecDce     - the pass ending with the dead code elimination          *)
(*   SpecDceTurns - the same, the elimination loop taken turn by turn      *)
(*   SpecHoist   - the hoisting of a nested step function next to the      *)
(*                 declarations of the module                              *)
(*   SpecOrder   - the pass over step functions of several shapes in any   *)
(*                 order                                                   *)
(*   SpecContext - the loop over the items of a module, item by item       *)
(***************************************************************************)
EXTENDS Integers, Sequences, FiniteSets, TLC

VARIABLES
    mode,                       \* StepTransform.mode
    filename,                   \* StepTransform.filename
    module_specifier,           \* StepTransform.module_specifier (Option)
    source,                     \* the module as parsed, before the pass touches it
    items,                      \* the module's items, rewritten in place
    has_file_step_directive,    \* StepTransform.has_file_step_directive
    has_file_workflow_directive,\* StepTransform.has_file_workflow_directive
    diagnostics,                \* the reports handed to HANDLER (emit_error)
    step_function_names,        \* StepTransform.step_function_names
    workflow_function_names,    \* StepTransform.workflow_function_names
    registered_functions,       \* StepTransform.registered_functions
    registration_calls,         \* StepTransform.registration_calls
    step_exports_to_convert,    \* StepTransform.step_exports_to_convert
    workflow_functions_needing_id, \* StepTransform.workflow_functions_needing_id
    in_step_function,           \* StepTransform.in_step_function
    in_workflow_function,       \* StepTransform.in_workflow_function
    in_module_level,            \* StepTransform.in_module_level
    current_workflow_function_name, \* StepTransform.current_workflow_function_name
    current_parent_function_name,   \* StepTransform.current_parent_function_name
    items_to_insert,            \* visit_mut_module_items: items_to_insert
    current_class_name,         \* StepTransform.current_class_name (Option)
    current_class_binding_name, \* StepTransform.current_class_binding_name (Option)
    classes_needing_serialization,        \* StepTransform.classes_needing_serialization
    classes_for_manifest,                 \* StepTransform.classes_for_manifest
    static_method_step_registrations,     \* StepTransform.static_method_step_registrations
    instance_method_step_registrations,   \* StepTransform.instance_method_step_registrations
    static_step_methods_to_strip,         \* StepTransform.static_step_methods_to_strip
    instance_step_methods_to_strip,       \* StepTransform.instance_step_methods_to_strip
    static_method_workflow_registrations, \* StepTransform.static_method_workflow_registrations
    workflow_export_to_const_name,        \* StepTransform.workflow_export_to_const_name["default"]
    object_property_step_functions,       \* StepTransform.object_property_step_functions
    object_property_workflow_conversions, \* StepTransform.object_property_workflow_conversions
    declared_identifiers,       \* StepTransform.declared_identifiers
    default_workflow_exports,   \* StepTransform.default_workflow_exports
    nested_step_functions,      \* StepTransform.nested_step_functions
    anonymous_fn_counter,       \* StepTransform.anonymous_fn_counter
    module_imports,             \* StepTransform.module_imports
    closure_vars,               \* ClosureVariableCollector.closure_vars
    local_vars,                 \* ClosureVariableCollector.local_vars
    params,                     \* ClosureVariableCollector.params
    id_in,                      \* the input of a call under check: the arguments of
                                \* the identity call, the statements left to collect from
    id_out,                     \* what the call returns: the identity string, the
                                \* sorted closure variables
    pc                          \* position of the run

\* the fields the class and default-export handlers write
cvars == <<current_class_name, current_class_binding_name,
           classes_needing_serialization, classes_for_manifest,
           static_method_step_registrations, instance_method_step_registrations,
           static_step_methods_to_strip, instance_step_methods_to_strip,
           static_method_workflow_registrations, workflow_export_to_const_name>>

\* the fields the naming of an anonymous default export reads and writes
nvars == <<declared_identifiers, default_workflow_exports>>

\* the fields of a ClosureVariableCollector
kvars == <<closure_vars, local_vars, params>>

\* the fields the hoisting handlers write; no handler of the pass itself
\* keeps a collector
hvars == <<nested_step_functions, anonymous_fn_counter, module_imports>>

ovars == <<object_property_step_functions, object_property_workflow_conversions,
           hvars, kvars>>

\* the fields the visitor writes while it walks the items
tvars == <<step_function_names, workflow_function_names, registered_functions,
           registration_calls, step_exports_to_convert, workflow_functions_needing_id,
           in_step_function, in_workflow_function, in_module_level,
           current_workflow_function_name, current_parent_function_name, items_to_insert,
           cvars>>

vars == <<mode, filename, module_specifier, source, items, has_file_step_directive,
          has_file_workflow_directive, diagnostics, tvars, ovars, nvars, id_in, id_out, pc>>

(***************************************************************************)
(* Option<&str>                                                            *)
(***************************************************************************)
None == [some |-> FALSE, val |-> ""]

Some(s) == [some |-> TRUE, val |-> s]

\* v under the name the body reads it by, computed once
With(v, body(_)) == body(v)

(***************************************************************************)
(* Bounded string universes.  Strings are TLA+ strings; a string is taken  *)
(* apart only by comparing it with concatenations of members of these sets.*)
(***************************************************************************)
MaxStrLen == 2

Alphabet == {"a", "/"}

RECURSIVE Strs(_)
Strs(n) ==
    IF n = 0 THEN {""}
    ELSE LET S == Strs(n - 1) IN S \cup {s \o c : s \in S, c \in Alphabet}

FileStems == {"a", "a/a"}

FileExts == {"", ".ts", ".d.ts", ".mjs"}

Filenames == {stem \o ext : stem \in FileStems, ext \in FileExts}

\* what can be left of a file name once a suffix is stripped
StemCandidates == {stem \o e : stem \in FileStems, e \in {"", ".d", ".ts", ".d.ts", ".mjs"}}

BuiltinNames == {"__builtin" \o x : x \in Strs(1)}

Names == Strs(MaxStrLen) \cup BuiltinNames

\* the names of the functions of the drawn modules
FnNames == {"foo"}

AllStrs == Names \cup FnNames \cup {"./" \o s : s \in StemCandidates}

ends_with(s, suffix) == \E x \in AllStrs : s = x \o suffix

starts_with(s, prefix) == \E x \in AllStrs : s = prefix \o x

contains(s, sub) == \E x \in AllStrs : \E y \in AllStrs : s = x \o sub \o y

(***************************************************************************)
(* naming.rs                                                               *)
(***************************************************************************)
format_name_single_slash(prefix, module_path, identifier) ==
    prefix \o "/" \o module_path \o "/" \o identifier

format_name(prefix, module_path, identifier) ==
    prefix \o "//" \o module_path \o "//" \o identifier

EXTENSIONS ==
    <<".d.ts", ".d.mts", ".d.cts", ".tsx", ".jsx", ".mts", ".cts", ".ts", ".js", ".mjs", ".cjs">>

\* str::strip_suffix: Some(rest) when path ends with ext
strip_suffix(path, ext) ==
    IF \E x \in StemCandidates : path = x \o ext
    THEN Some(CHOOSE x \in StemCandidates : path = x \o ext)
    ELSE None

RECURSIVE strip_extension_from(_, _)
strip_extension_from(path, i) ==
    IF i > Len(EXTENSIONS) THEN path
    ELSE IF strip_suffix(path, EXTENSIONS[i]).some
         THEN strip_suffix(path, EXTENSIONS[i]).val
         ELSE strip_extension_from(path, i + 1)

strip_extension(path) == strip_extension_from(path, 1)

get_module_path(spec, filepath) ==
    IF spec.some THEN spec.val
    ELSE "./" \o strip_extension(filepath)

(***************************************************************************)
(* lib.rs: StepTransform::get_module_path, create_id.  self is the pair of *)
(* fields the two methods read.                                            *)
(***************************************************************************)
Self == [filename |-> filename, module_specifier |-> module_specifier]

self_get_module_path(self) == get_module_path(self.module_specifier, self.filename)

create_id_step_prefix(self, fn_name, span_lo, is_workflow) ==
    IF fn_name.some /\ starts_with(fn_name.val, "__builtin")
    THEN fn_name.val
    ELSE IF fn_name.some
         THEN format_name("step", self_get_module_path(self), fn_name.val)
         ELSE format_name("step", self_get_module_path(self), span_lo)

create_id(self, fn_name, span_lo, is_workflow) ==
    IF fn_name.some /\ starts_with(fn_name.val, "__builtin")
    THEN fn_name.val
    ELSE LET prefix == IF is_workflow THEN "workflow" ELSE "step"
         IN  IF fn_name.some
             THEN format_name(prefix, self_get_module_path(self), fn_name.val)
             ELSE format_name(prefix, self_get_module_path(self), span_lo)

\* lib.rs 2515: the identity of a serializable class
class_id(self, class_name) == format_name("class", self_get_module_path(self), class_name)


(***************************************************************************)
(* Declared identifiers and generated names (lib.rs 1293-1466).  A binding *)
(* pattern is [kind |-> "ident", sym], [kind |-> "array", elems],          *)
(* [kind |-> "object", props], [kind |-> "rest", arg],                     *)
(* [kind |-> "assign", left] or [kind |-> "expr"]; an object pattern's     *)
(* property is "keyvalue" (value), "assign" (key) or "rest" (arg).         *)
(***************************************************************************)
\* lib.rs: generate_unique_name: the while loop from a counter
RECURSIVE generate_unique_name_loop(_, _, _, _)
generate_unique_name_loop(declared, base_name, name, counter) ==
    IF name \in declared
    THEN generate_unique_name_loop(declared, base_name,
                                   base_name \o "$" \o ToString(counter + 1), counter + 1)
    ELSE name

generate_unique_name(declared, base_name) ==
    generate_unique_name_loop(declared, base_name, base_name, 0)

\* lib.rs: collect_idents_from_pat
RECURSIVE collect_idents_from_pat(_)
collect_idents_from_pat(pat) ==
    CASE pat.kind = "ident" -> {pat.sym}
      [] pat.kind = "array" ->
             UNION {collect_idents_from_pat(pat.elems[i]) : i \in 1..Len(pat.elems)}
      [] pat.kind = "object" ->
             UNION {CASE pat.props[i].kind = "keyvalue" ->
                             collect_idents_from_pat(pat.props[i].value)
                      [] pat.props[i].kind = "assign" -> {pat.props[i].key}
                      [] pat.props[i].kind = "rest" ->
                             collect_idents_from_pat(pat.props[i].arg) :
                    i \in 1..Len(pat.props)}
      [] pat.kind = "rest" -> collect_idents_from_pat(pat.arg)
      [] pat.kind = "assign" -> collect_idents_from_pat(pat.left)
      [] OTHER -> {}

\* the pattern a variable item declares: its pat, or the name it binds a function to
declarator_name(item) ==
    IF "pat" \in DOMAIN item THEN item.pat ELSE [kind |-> "ident", sym |-> item.name]

\* lib.rs: collect_declared_identifiers, the names one module item adds
collect_declared_of(item) ==
    CASE item.kind \in {"fn", "export_fn"} -> {item.name}
      [] item.kind \in {"var", "export_var", "var_decl", "export_var_decl"} ->
             collect_idents_from_pat(declarator_name(item))
      [] item.kind \in {"class", "export_class"} -> {item.class_name}
      [] item.kind = "export_default" -> IF item.name # "default" THEN {item.name} ELSE {}
      [] item.kind = "import" /\ "specifiers" \in DOMAIN item ->
             {item.specifiers[i].local : i \in 1..Len(item.specifiers)}
      [] OTHER -> {}

collect_declared_identifiers(its) ==
    UNION {collect_declared_of(its[i]) : i \in 1..Len(its)}

(***************************************************************************)
(* lib.rs: WorkflowErrorKind and emit_error.  A report is the record of    *)
(* its kind, its span (the source position: <<item>> or <<item, stmt>>),   *)
(* the directive it names and the kind's third field (location, expected   *)
(* or expr).  diagnostics is the set of the reports emitted.               *)
(***************************************************************************)
NonAsyncFunction(span, directive) ==
    [kind |-> "NonAsyncFunction", span |-> span, directive |-> directive, detail |-> ""]

MisplacedDirective(span, directive, location) ==
    [kind |-> "MisplacedDirective", span |-> span, directive |-> directive, detail |-> location]

MisspelledDirective(span, directive, expected) ==
    [kind |-> "MisspelledDirective", span |-> span, directive |-> directive, detail |-> expected]

ForbiddenExpression(span, expr, directive) ==
    [kind |-> "ForbiddenExpression", span |-> span, directive |-> directive, detail |-> expr]

InvalidExport(span, directive) ==
    [kind |-> "InvalidExport", span |-> span, directive |-> directive, detail |-> ""]

WorkflowErrorKind ==
    {"NonAsyncFunction", "MisplacedDirective", "MisspelledDirective", "ForbiddenExpression",
     "InvalidExport"}

(***************************************************************************)
(* lib.rs: detect_similar_strings.  Chars is a.chars().collect() for the   *)
(* string literals of the model.                                           *)
(***************************************************************************)
Literals == {"use step", "use workflow", "use steps", "use workflw", "use strict"}

Chars(s) ==
    CASE s = "use step"     -> <<"u", "s", "e", " ", "s", "t", "e", "p">>
      [] s = "use workflow" -> <<"u", "s", "e", " ", "w", "o", "r", "k", "f", "l", "o", "w">>
      [] s = "use steps"    -> <<"u", "s", "e", " ", "s", "t", "e", "p", "s">>
      [] s = "use workflw"  -> <<"u", "s", "e", " ", "w", "o", "r", "k", "f", "l", "w">>
      [] s = "use strict"   -> <<"u", "s", "e", " ", "s", "t", "r", "i", "c", "t">>

\* the while loop; i and j count the characters consumed (0-based indices)
RECURSIVE similar_loop(_, _, _, _, _)
similar_loop(a, b, i, j, differences) ==
    IF i < Len(a) /\ j < Len(b)
    THEN IF a[i + 1] # b[j + 1]
         THEN IF differences + 1 > 1 THEN FALSE
              ELSE IF Len(a) > Len(b) THEN similar_loop(a, b, i + 1, j, differences + 1)
              ELSE IF Len(b) > Len(a) THEN similar_loop(a, b, i, j + 1, differences + 1)
              ELSE similar_loop(a, b, i + 1, j + 1, differences + 1)
         ELSE similar_loop(a, b, i + 1, j + 1, differences)
    ELSE differences + (Len(a) - i) + (Len(b) - j) = 1

detect_similar_strings(a, b) ==
    LET a_chars == Chars(a)
        b_chars == Chars(b)
        d == Len(a_chars) - Len(b_chars)
    IN  IF (IF d < 0 THEN -d ELSE d) > 1 THEN FALSE
        ELSE similar_loop(a_chars, b_chars, 0, 0, 0)

(***************************************************************************)
(* Module items.  kind "lit" is an expression statement that is a string   *)
(* literal (val), "expr" any other expression statement, "import" an       *)
(* import declaration, "other" any other item; at is the item's source     *)
(* position.                                                               *)
(***************************************************************************)
is_str_lit(item) == item.kind = "lit"

is_expr_stmt(item) == item.kind \in {"lit", "expr"}

\* lib.rs: check_module_directive; the result and the reports of one call
RECURSIVE check_module_directive_loop(_, _, _, _, _)
check_module_directive_loop(its, i, found_directive, is_first_meaningful, diags) ==
    IF i > Len(its) THEN [found |-> found_directive, diags |-> diags]
    ELSE LET item == its[i] IN
         IF is_expr_stmt(item)
         THEN LET d == IF ~is_str_lit(item) THEN {}
                       ELSE IF item.val = "use step"
                       THEN IF ~is_first_meaningful
                            THEN {MisplacedDirective(<<item.at>>, item.val, "Module")}
                            ELSE {}
                       ELSE IF item.val = "use workflow"
                       THEN IF found_directive
                            THEN {MisplacedDirective(<<item.at>>, item.val, "Module")}
                            ELSE {}
                       ELSE IF detect_similar_strings(item.val, "use step")
                       THEN {MisspelledDirective(<<item.at>>, item.val, "use step")}
                       ELSE {}
                  f == found_directive
                       \/ (is_str_lit(item) /\ item.val = "use step" /\ is_first_meaningful)
              IN  check_module_directive_loop(its, i + 1, f,
                      IF ~f THEN FALSE ELSE is_first_meaningful, diags \cup d)
         ELSE IF item.kind = "import"
         THEN check_module_directive_loop(its, i + 1, found_directive,
                  IF found_directive THEN is_first_meaningful ELSE FALSE, diags)
         ELSE check_module_directive_loop(its, i + 1, found_directive, FALSE, diags)

check_module_directive(its) == check_module_directive_loop(its, 1, FALSE, TRUE, {})

\* lib.rs: check_module_workflow_directive
RECURSIVE check_module_workflow_directive_loop(_, _, _, _, _)
check_module_workflow_directive_loop(its, i, found_directive, is_first_meaningful, diags) ==
    IF i > Len(its) THEN [found |-> found_directive, diags |-> diags]
    ELSE LET item == its[i] IN
         IF is_expr_stmt(item)
         THEN LET d == IF ~is_str_lit(item) THEN {}
                       ELSE IF item.val = "use workflow"
                       THEN IF ~is_first_meaningful
                            THEN {MisplacedDirective(<<item.at>>, item.val, "Module")}
                            ELSE {}
                       ELSE IF item.val = "use step"
                       THEN IF found_directive
                            THEN {MisplacedDirective(<<item.at>>, item.val, "Module")}
                            ELSE {}
                       ELSE IF detect_similar_strings(item.val, "use workflow")
                       THEN {MisspelledDirective(<<item.at>>, item.val, "use workflow")}
                       ELSE {}
                  f == found_directive
                       \/ (is_str_lit(item) /\ item.val = "use workflow" /\ is_first_meaningful)
              IN  check_module_workflow_directive_loop(its, i + 1, f,
                      IF ~f THEN FALSE ELSE is_first_meaningful, diags \cup d)
         ELSE IF item.kind = "import"
         THEN check_module_workflow_directive_loop(its, i + 1, found_directive,
                  IF found_directive THEN is_first_meaningful ELSE FALSE, diags)
         ELSE check_module_workflow_directive_loop(its, i + 1, found_directive, FALSE, diags)

\* the scan with a directive honoured wherever it stands
check_module_workflow_directive_anywhere(its) ==
    [found |-> \E i \in 1..Len(its) : is_str_lit(its[i]) /\ its[i].val = "use workflow",
     diags |-> check_module_workflow_directive_loop(its, 1, FALSE, TRUE, {}).diags]

check_module_workflow_directive(its) ==
    check_module_workflow_directive_loop(its, 1, FALSE, TRUE, {})

\* lib.rs 4632-4646: the leading file-level directive a mode removes
should_remove(m, value) ==
    CASE m = "Step"     -> value = "use step" \/ value = "use workflow"
      [] m = "Workflow" -> value = "use workflow"
      [] m = "Client"   -> value = "use step" \/ value = "use workflow"

remove_file_directive(m, its) ==
    IF its # <<>> /\ is_str_lit(its[1]) /\ should_remove(m, its[1].val)
    THEN Tail(its)
    ELSE its


(***************************************************************************)
(* Function bodies.  A statement is [kind, val, span]: kind "lit" is an    *)
(* expression statement that is a string literal, "expr" an expression     *)
(* statement that is this, super or arguments (val), "other" any other     *)
(* statement; the pass writes "throw" (val: the name in the message) and   *)
(* "return_proxy" (val: the step id).  A body is [wrapped, stmts]: when    *)
(* wrapped, stmts are the statements of the try block of the TypeScript    *)
(* `using` pattern (an env declaration, then try/catch/finally), else the  *)
(* statements of the body itself.                                          *)
(***************************************************************************)
is_lit_stmt(stmt) == stmt.kind = "lit"

\* lib.rs: get_try_block_from_using_pattern; Some(the try block's statements)
get_try_block_from_using_pattern(body) ==
    IF body.wrapped THEN [some |-> TRUE, val |-> body.stmts] ELSE [some |-> FALSE, val |-> <<>>]

\* the statements of the body itself
top_level(body) ==
    IF body.wrapped
    THEN << [kind |-> "env", val |-> "", span |-> <<>>], [kind |-> "try", val |-> "", span |-> <<>>] >>
    ELSE body.stmts

get_directive_from_block(block, directive) ==
    block # <<>> /\ is_lit_stmt(block[1]) /\ block[1].val = directive

get_first_string_literal_from_block(block) ==
    IF block # <<>> /\ is_lit_stmt(block[1])
    THEN [some |-> TRUE, val |-> block[1]]
    ELSE [some |-> FALSE, val |-> [kind |-> "", val |-> "", span |-> <<>>]]

\* the misspelling report of the try block of a using pattern
using_pattern_misspelling(block, expected) ==
    LET first == get_first_string_literal_from_block(block)
    IN  IF first.some /\ detect_similar_strings(first.val.val, expected)
        THEN {MisspelledDirective(first.val.span, first.val.val, expected)}
        ELSE {}

\* lib.rs: has_use_step_directive: the loop over the body's statements
RECURSIVE has_use_step_loop(_, _, _, _)
has_use_step_loop(stmts, i, is_first_meaningful, diags) ==
    IF i > Len(stmts) THEN [res |-> FALSE, diags |-> diags]
    ELSE IF is_lit_stmt(stmts[i]) /\ stmts[i].val = "use step"
    THEN [res |-> TRUE,
          diags |-> diags \cup
                    (IF ~is_first_meaningful
                     THEN {MisplacedDirective(stmts[i].span, stmts[i].val, "FunctionBody")}
                     ELSE {})]
    ELSE IF is_lit_stmt(stmts[i]) /\ detect_similar_strings(stmts[i].val, "use step")
    THEN has_use_step_loop(stmts, i + 1, FALSE,
             diags \cup {MisspelledDirective(stmts[i].span, stmts[i].val, "use step")})
    ELSE has_use_step_loop(stmts, i + 1, FALSE, diags)

has_use_step_directive(body) ==
    With(has_use_step_loop(top_level(body), 1, TRUE, {}), LAMBDA top :
        LET try_block == get_try_block_from_using_pattern(body)
        IN  IF top.res THEN top
            ELSE IF try_block.some
            THEN IF get_directive_from_block(try_block.val, "use step")
                 THEN [res |-> TRUE, diags |-> top.diags]
                 ELSE [res |-> FALSE,
                       diags |-> top.diags
                                 \cup using_pattern_misspelling(try_block.val, "use step")]
            ELSE [res |-> FALSE, diags |-> top.diags])

\* lib.rs: has_use_workflow_directive
RECURSIVE has_use_workflow_loop(_, _, _, _)
has_use_workflow_loop(stmts, i, is_first_meaningful, diags) ==
    IF i > Len(stmts) THEN [res |-> FALSE, diags |-> diags]
    ELSE IF is_lit_stmt(stmts[i]) /\ stmts[i].val = "use workflow"
    THEN [res |-> TRUE,
          diags |-> diags \cup
                    (IF ~is_first_meaningful
                     THEN {MisplacedDirective(stmts[i].span, stmts[i].val, "FunctionBody")}
                     ELSE {})]
    ELSE IF is_lit_stmt(stmts[i]) /\ detect_similar_strings(stmts[i].val, "use workflow")
    THEN has_use_workflow_loop(stmts, i + 1, FALSE,
             diags \cup {MisspelledDirective(stmts[i].span, stmts[i].val, "use workflow")})
    ELSE has_use_workflow_loop(stmts, i + 1, FALSE, diags)

has_use_workflow_directive(body) ==
    With(has_use_workflow_loop(top_level(body), 1, TRUE, {}), LAMBDA top :
        LET try_block == get_try_block_from_using_pattern(body)
        IN  IF top.res THEN top
            ELSE IF try_block.some
            THEN IF get_directive_from_block(try_block.val, "use workflow")
                 THEN [res |-> TRUE, diags |-> top.diags]
                 ELSE [res |-> FALSE,
                       diags |-> top.diags
                                 \cup using_pattern_misspelling(try_block.val, "use workflow")]
            ELSE [res |-> FALSE, diags |-> top.diags])

\* lib.rs: has_use_step_directive_arrow (block bodies)
has_use_step_directive_arrow(body) ==
    LET top == top_level(body)
        try_block == get_try_block_from_using_pattern(body)
    IN  IF top # <<>> /\ is_lit_stmt(top[1])
        THEN [res |-> top[1].val = "use step", diags |-> {}]
        ELSE IF try_block.some
        THEN IF get_directive_from_block(try_block.val, "use step")
             THEN [res |-> TRUE, diags |-> {}]
             ELSE [res |-> FALSE, diags |-> using_pattern_misspelling(try_block.val, "use step")]
        ELSE [res |-> FALSE, diags |-> {}]

\* lib.rs: has_use_workflow_directive_arrow
has_use_workflow_directive_arrow(body) ==
    LET top == top_level(body)
        try_block == get_try_block_from_using_pattern(body)
    IN  IF top # <<>> /\ is_lit_stmt(top[1])
        THEN [res |-> top[1].val = "use workflow", diags |-> {}]
        ELSE IF try_block.some
        THEN IF get_directive_from_block(try_block.val, "use workflow")
             THEN [res |-> TRUE, diags |-> {}]
             ELSE [res |-> FALSE, diags |-> using_pattern_misspelling(try_block.val, "use workflow")]
        ELSE [res |-> FALSE, diags |-> {}]

\* lib.rs: remove_directive_from_using_pattern
remove_directive_from_using_pattern(body, directive) ==
    IF body.wrapped /\ body.stmts # <<>> /\ is_lit_stmt(body.stmts[1])
       /\ body.stmts[1].val = directive
    THEN [body EXCEPT !.stmts = Tail(@)]
    ELSE body

\* lib.rs: remove_use_step_directive and remove_use_step_directive_arrow
remove_use_step_directive_emptied(body) == [body EXCEPT !.stmts = <<>>]

remove_use_step_directive(body) ==
    LET top == top_level(body)
    IN  IF top = <<>> THEN body
        ELSE IF is_lit_stmt(top[1]) /\ top[1].val = "use step"
        THEN [body EXCEPT !.stmts = Tail(@)]
        ELSE remove_directive_from_using_pattern(body, "use step")

\* lib.rs: remove_use_workflow_directive and remove_use_workflow_directive_arrow
remove_use_workflow_directive(body) ==
    LET top == top_level(body)
    IN  IF top = <<>> THEN body
        ELSE IF is_lit_stmt(top[1]) /\ top[1].val = "use workflow"
        THEN [body EXCEPT !.stmts = Tail(@)]
        ELSE remove_directive_from_using_pattern(body, "use workflow")

\* the body the pass writes for a workflow function that must not run here:
\* throw new Error("You attempted to execute workflow <name> function
\* directly. To start a workflow, use start(<arg>) from workflow/api")
throw_body_unnamed(name, arg) ==
    [wrapped |-> FALSE,
     stmts |-> << [kind |-> "throw", val |-> "", arg |-> arg, span |-> <<>>] >>]

throw_body(name, arg) ==
    [wrapped |-> FALSE,
     stmts |-> << [kind |-> "throw", val |-> name, arg |-> arg, span |-> <<>>] >>]


(***************************************************************************)
(* The visitor.  st is the record of the StepTransform fields a handler    *)
(* writes (and the reports emitted so far), f the function it visits:      *)
(* [name, is_async, body, at, ...].  A handler returns [st, f].            *)
(***************************************************************************)
AddDiags(st, ds) == [st EXCEPT !.diagnostics = @ \cup ds]

fn_span(f) == <<f.at>>

\* span.lo.0 as create_id formats it
lo(span) == ToString(span[1])

\* lib.rs: has_step_directive / has_workflow_directive (any async status)
has_step_directive(f, is_exported) ==
    IF has_file_step_directive /\ is_exported
    THEN [res |-> TRUE, diags |-> {}]
    ELSE has_use_step_directive(f.body)

has_workflow_directive(f, is_exported) ==
    With(has_use_workflow_directive(f.body), LAMBDA from_body :
        LET from_file == has_file_workflow_directive /\ is_exported
        IN  [res |-> from_file \/ from_body.res, diags |-> from_body.diags])

has_step_directive_arrow(f, is_exported) ==
    IF has_file_step_directive /\ is_exported
    THEN [res |-> TRUE, diags |-> {}]
    ELSE has_use_step_directive_arrow(f.body)

has_workflow_directive_arrow(f, is_exported) ==
    IF has_file_workflow_directive /\ is_exported
    THEN [res |-> TRUE, diags |-> {}]
    ELSE has_use_workflow_directive_arrow(f.body)

\* lib.rs: should_transform_function / should_transform_workflow_function
should_transform_function(f, is_exported) ==
    With(has_use_step_directive(f.body), LAMBDA has_directive :
        [res |-> (has_directive.res \/ (has_file_step_directive /\ is_exported)) /\ f.is_async,
         diags |-> has_directive.diags])

should_transform_workflow_function(f, is_exported) ==
    With(has_use_workflow_directive(f.body), LAMBDA has_directive :
        [res |-> (has_directive.res \/ (has_file_workflow_directive /\ is_exported))
                 /\ f.is_async,
         diags |-> has_directive.diags])

\* lib.rs: create_registration_call: registerStepFunction(step_id, name), once per name
create_registration_call_unregistered(st, name, span) ==
    [st EXCEPT !.registered_functions = @ \cup {name}]

create_registration_call(st, name, span) ==
    IF name \in st.registered_functions THEN st
    ELSE [st EXCEPT !.registered_functions = @ \cup {name},
                    !.registration_calls =
                        Append(@, [kind |-> "registerStepFunction",
                                   id |-> create_id(Self, Some(name), lo(span), FALSE),
                                   name |-> name])]

\* lib.rs: visit_mut_this_expr, visit_mut_super, visit_mut_ident
visit_mut_this_expr(st, span) ==
    IF st.in_step_function THEN {ForbiddenExpression(span, "this", "use step")}
    ELSE IF st.in_workflow_function THEN {ForbiddenExpression(span, "this", "use workflow")}
    ELSE {}

visit_mut_super(st, span) ==
    IF st.in_step_function THEN {ForbiddenExpression(span, "super", "use step")}
    ELSE IF st.in_workflow_function THEN {ForbiddenExpression(span, "super", "use workflow")}
    ELSE {}

visit_mut_ident(st, sym, span) ==
    IF sym # "arguments" THEN {}
    ELSE IF st.in_step_function THEN {ForbiddenExpression(span, "arguments", "use step")}
    ELSE IF st.in_workflow_function
    THEN {ForbiddenExpression(span, "arguments", "use workflow")}
    ELSE {}

\* the reports of visiting one statement of a body (visit_mut_block_stmt ->
\* process_stmt -> the expression visitors)
visit_body_stmt(st, stmt) ==
    IF stmt.kind # "expr" THEN {}
    ELSE IF stmt.val = "this" THEN visit_mut_this_expr(st, stmt.span)
    ELSE IF stmt.val = "super" THEN visit_mut_super(st, stmt.span)
    ELSE visit_mut_ident(st, stmt.val, stmt.span)

visit_body(st, body) ==
    UNION {visit_body_stmt(st, body.stmts[i]) : i \in 1..Len(body.stmts)}

\* lib.rs: visit_mut_function: the context flags are set from the directives
\* the body carries now, the children visited, the flags restored
visit_mut_function(st, f) ==
    With(has_use_step_directive(f.body), LAMBDA has_step :
    With(has_use_workflow_directive(f.body), LAMBDA has_workflow :
        LET inner == [st EXCEPT !.in_step_function = @ \/ has_step.res,
                                !.in_workflow_function = @ \/ has_workflow.res,
                                !.in_module_level = FALSE]
        IN  AddDiags(st, has_step.diags \cup has_workflow.diags
                         \cup visit_body(inner, f.body))))

\* lib.rs: visit_mut_arrow_expr
visit_mut_arrow_expr(st, f) ==
    With(has_use_step_directive_arrow(f.body), LAMBDA has_step :
    With(has_use_workflow_directive_arrow(f.body), LAMBDA has_workflow :
        LET inner == [st EXCEPT !.in_step_function = @ \/ has_step.res,
                                !.in_workflow_function = @ \/ has_workflow.res,
                                !.in_module_level = FALSE]
        IN  AddDiags(st, has_step.diags \cup has_workflow.diags
                         \cup visit_body(inner, f.body))))

\* lib.rs: visit_mut_fn_decl
visit_mut_fn_decl(st, f) ==
    With(has_step_directive(f, FALSE), LAMBDA hs :
    With(has_workflow_directive(f, FALSE), LAMBDA hw :
    With(IF hs.res
         THEN IF ~f.is_async
              THEN [st |-> AddDiags(st, hs.diags \cup {NonAsyncFunction(fn_span(f), "use step")}),
                    f |-> f]
              ELSE LET st1 == [AddDiags(st, hs.diags) EXCEPT
                                  !.step_function_names = @ \cup {f.name}]
                   IN  IF mode = "Step"
                       THEN [st |-> create_registration_call(st1, f.name, fn_span(f)),
                             f |-> [f EXCEPT !.body = remove_use_step_directive(@)]]
                       ELSE [st |-> st1, f |-> f]
         ELSE IF hw.res
         THEN IF ~f.is_async
              THEN [st |-> AddDiags(st, hs.diags \cup hw.diags
                               \cup {NonAsyncFunction(fn_span(f), "use workflow")}),
                    f |-> f]
              ELSE [st |-> [AddDiags(st, hs.diags \cup hw.diags) EXCEPT
                               !.workflow_function_names = @ \cup {f.name}],
                    f |-> f]
         ELSE [st |-> AddDiags(st, hs.diags \cup hw.diags), f |-> f],
         LAMBDA r :
        LET inner == [r.st EXCEPT !.current_parent_function_name = Some(f.name)]
            visited == visit_mut_function(inner, r.f)
        IN  [st |-> [visited EXCEPT
                        !.current_parent_function_name = st.current_parent_function_name],
             f |-> r.f])))


\* lib.rs: visit_mut_export_decl, Decl::Fn: export [async] function name() {..}
visit_mut_export_decl_fn(st, f) ==
    With(IF f.name \in st.workflow_function_names THEN [res |-> TRUE, diags |-> {}]
         ELSE has_workflow_directive(f, TRUE), LAMBDA wf :
    With(has_step_directive(f, TRUE), LAMBDA hs :
    LET is_workflow_function == wf.res
        st0 == IF is_workflow_function
               THEN [AddDiags(st, wf.diags) EXCEPT
                        !.in_workflow_function = TRUE,
                        !.current_workflow_function_name = Some(f.name)]
               ELSE AddDiags(st, wf.diags)
        st1 == AddDiags(st0, hs.diags)
    IN
    With(IF hs.res
         THEN IF ~f.is_async
              THEN [st |-> AddDiags(st1, {NonAsyncFunction(fn_span(f), "use step")}), f |-> f]
              ELSE LET st2 == [st1 EXCEPT !.step_function_names = @ \cup {f.name}]
                       f1 == [f EXCEPT !.body = remove_use_step_directive(@)]
                   IN  CASE mode = "Step" ->
                              visit_mut_fn_decl(
                                  create_registration_call(st2, f.name, fn_span(f)), f1)
                         [] mode = "Workflow" ->
                              [st |-> [st2 EXCEPT !.step_exports_to_convert =
                                          Append(@, [name |-> f.name,
                                                     id |-> create_id(Self, Some(f.name),
                                                                      lo(fn_span(f)), FALSE)])],
                               f |-> f1]
                         [] mode = "Client" -> visit_mut_fn_decl(st2, f1)
         ELSE IF is_workflow_function
         THEN With(IF ~f.is_async
                   THEN [st |-> AddDiags(st1, {NonAsyncFunction(fn_span(f), "use workflow")}),
                         f |-> f]
                   ELSE LET st2 == [st1 EXCEPT !.workflow_function_names = @ \cup {f.name}]
                        IN  CASE mode = "Step" -> [st |-> st2, f |-> f]
                              [] mode = "Workflow" ->
                                   [st |-> st2,
                                    f |-> [f EXCEPT !.body = remove_use_workflow_directive(@)]]
                              [] mode = "Client" ->
                                   With(has_use_workflow_directive(f.body),
                                        LAMBDA has_inline_directive :
                                       [st |-> [AddDiags(st2, has_inline_directive.diags) EXCEPT
                                                   !.workflow_functions_needing_id =
                                                       Append(@, f.name)],
                                        f |-> IF has_inline_directive.res
                                              THEN [f EXCEPT !.body = throw_body(f.name, f.name)]
                                              ELSE [f EXCEPT !.body =
                                                       remove_use_workflow_directive(@)]]),
                   LAMBDA first :
              With(visit_mut_fn_decl(first.st, first.f), LAMBDA visited :
                  IF mode = "Step"
                  THEN [st |-> [visited.st EXCEPT !.workflow_functions_needing_id =
                                   Append(@, f.name)],
                        f |-> [visited.f EXCEPT !.body = throw_body(f.name, f.name)]]
                  ELSE visited))
         ELSE visit_mut_fn_decl(st1, f),
         LAMBDA r :
        [st |-> [r.st EXCEPT !.in_workflow_function = st.in_workflow_function,
                             !.current_workflow_function_name =
                                 st.current_workflow_function_name],
         f |-> r.f])))

\* lib.rs: create_step_proxy as process_stmt uses it: the body of a module-level
\* step function in Workflow mode returns the proxy call for its identity
return_proxy_body(step_id) ==
    [wrapped |-> FALSE,
     stmts |-> << [kind |-> "return_proxy", val |-> step_id, span |-> <<>>] >>]

\* lib.rs: process_stmt, Stmt::Decl(Decl::Fn) at module level: [async] function name() {..}
process_stmt_fn(st, f) ==
    With(should_transform_function(f, FALSE), LAMBDA sf :
    LET st0 == AddDiags(st, sf.diags)
    IN  IF sf.res
        THEN LET st1 == [st0 EXCEPT !.step_function_names = @ \cup {f.name}]
                 f1 == [f EXCEPT !.body = remove_use_step_directive(@)]
             IN  CASE mode = "Step" ->
                        visit_mut_fn_decl(create_registration_call(st1, f.name, fn_span(f)), f1)
                   [] mode = "Workflow" ->
                        [st |-> st1,
                         f |-> [f EXCEPT !.body =
                                   return_proxy_body(create_id(Self, Some(f.name),
                                                               lo(fn_span(f)), FALSE))]]
                   [] mode = "Client" -> visit_mut_fn_decl(st1, f1)
        ELSE With(should_transform_workflow_function(f, FALSE), LAMBDA sw :
             LET st1 == AddDiags(st0, sw.diags)
             IN  IF sw.res
                 THEN LET st2 == [st1 EXCEPT !.workflow_function_names = @ \cup {f.name}]
                          pushed(s) == [s EXCEPT !.workflow_functions_needing_id =
                                           Append(@, f.name)]
                      IN  CASE mode = "Step" ->
                                 With(visit_mut_fn_decl(st2, f), LAMBDA visited :
                                     [st |-> pushed(visited.st),
                                      f |-> [visited.f EXCEPT
                                                !.body = throw_body(f.name, f.name)]])
                            [] mode = "Workflow" ->
                                 visit_mut_fn_decl(
                                     st2, [f EXCEPT !.body = remove_use_workflow_directive(@)])
                            [] mode = "Client" ->
                                 visit_mut_fn_decl(
                                     pushed(st2), [f EXCEPT !.body = throw_body(f.name, f.name)])
                 ELSE visit_mut_fn_decl(st1, f)))


\* lib.rs: create_step_initializer: the lazy step proxy accessor called with the id
create_step_initializer(step_id) == [kind |-> "step_initializer", id |-> step_id]

\* lib.rs: create_step_proxy as the body of a module-level arrow step function
\* in Workflow mode: the arrow's body is the proxy call itself
proxy_expr_body(step_id) ==
    [wrapped |-> FALSE,
     stmts |-> << [kind |-> "proxy_expr", val |-> step_id, span |-> <<>>] >>]

\* lib.rs: visit_mut_expr on the initializer of a declarator at module level,
\* then its children (visit_mut_function / visit_mut_arrow_expr)
visit_mut_expr(st, f) ==
    CASE f.fkind = "fn" ->
             With(has_step_directive(f, FALSE), LAMBDA hs :
                 visit_mut_function(
                     IF hs.res /\ ~f.is_async
                     THEN AddDiags(st, hs.diags \cup {NonAsyncFunction(fn_span(f), "use step")})
                     ELSE AddDiags(st, hs.diags), f))
      [] f.fkind = "arrow" ->
             With(has_step_directive_arrow(f, FALSE), LAMBDA hs :
                 visit_mut_arrow_expr(
                     IF hs.res /\ ~f.is_async
                     THEN AddDiags(st, hs.diags \cup {NonAsyncFunction(fn_span(f), "use step")})
                     ELSE AddDiags(st, hs.diags), f))
      [] OTHER -> st

\* lib.rs: visit_mut_var_decl, the declarator  name = function / arrow  at module level
visit_mut_var_decl_init(st, f) ==
    With(IF f.fkind = "fn" THEN has_step_directive(f, FALSE)
         ELSE has_step_directive_arrow(f, FALSE), LAMBDA hs :
    With(IF f.fkind = "fn" THEN has_workflow_directive(f, FALSE)
         ELSE has_workflow_directive_arrow(f, FALSE), LAMBDA hw :
    LET is_fn == f.fkind = "fn"
        st0 == AddDiags(st, hs.diags \cup hw.diags)
        pushed(s) == [s EXCEPT !.workflow_functions_needing_id = Append(@, f.name)]
    IN  IF hs.res
        THEN IF ~f.is_async
             THEN [st |-> AddDiags(st0, {NonAsyncFunction(fn_span(f), "use step")}), f |-> f]
             ELSE LET st1 == [st0 EXCEPT !.step_function_names = @ \cup {f.name}]
                      f1 == [f EXCEPT !.body = remove_use_step_directive(@)]
                      step_id == create_id(Self, Some(f.name), lo(fn_span(f)), FALSE)
                  IN  CASE mode = "Step" ->
                             [st |-> create_registration_call(st1, f.name, fn_span(f)),
                              f |-> f1]
                        [] mode = "Workflow" ->
                             [st |-> st1,
                              f |-> [f EXCEPT !.body = IF is_fn THEN return_proxy_body(step_id)
                                                       ELSE proxy_expr_body(step_id)]]
                        [] mode = "Client" -> [st |-> st1, f |-> f1]
        ELSE IF hw.res
        THEN IF ~f.is_async
             THEN [st |-> AddDiags(st0, {NonAsyncFunction(fn_span(f), "use workflow")}),
                   f |-> f]
             ELSE LET st1 == [st0 EXCEPT !.workflow_function_names = @ \cup {f.name}]
                  IN  CASE mode = "Step" ->
                             [st |-> pushed(st1),
                              f |-> [f EXCEPT !.body = throw_body(f.name, f.name)]]
                        [] mode = "Workflow" ->
                             [st |-> st1,
                              f |-> [f EXCEPT !.body = remove_use_workflow_directive(@)]]
                        [] mode = "Client" ->
                             [st |-> pushed(st1),
                              f |-> [f EXCEPT !.body = throw_body(f.name, f.name)]]
        ELSE LET inner == [st0 EXCEPT !.current_parent_function_name = Some(f.name),
                                      !.in_module_level = FALSE]
                 visited == IF is_fn THEN visit_mut_function(inner, f)
                            ELSE visit_mut_arrow_expr(inner, f)
             IN  [st |-> [visited EXCEPT
                             !.current_parent_function_name = st.current_parent_function_name,
                             !.in_module_level = st.in_module_level],
                  f |-> f]))

\* lib.rs: visit_mut_var_decl: the declarators, then var_decl.visit_mut_children_with
visit_mut_var_decl(st, f) ==
    IF f.fkind \in {"fn", "arrow"}
    THEN With(visit_mut_var_decl_init(st, f), LAMBDA r :
             [st |-> visit_mut_expr(r.st, r.f), f |-> r.f])
    ELSE [st |-> st, f |-> f]

\* lib.rs: visit_mut_export_decl, Decl::Var: export const name = function / arrow
visit_mut_export_decl_var(st, f) ==
    LET is_fn == f.fkind = "fn"
        pushed(s) == [s EXCEPT !.workflow_functions_needing_id = Append(@, f.name)]
        step_id == create_id(Self, Some(f.name), lo(fn_span(f)), FALSE)
        initializer == [kind |-> "export_var", fkind |-> "initializer", name |-> f.name,
                        init |-> create_step_initializer(step_id), at |-> f.at]
        \* the step branch once the function is known to be an async step function
        as_step(s) ==
            LET st1 == [s EXCEPT !.step_function_names = @ \cup {f.name}]
                f1 == [f EXCEPT !.body = remove_use_step_directive(@)]
            IN  CASE mode = "Step" ->
                       [st |-> create_registration_call(st1, f.name, fn_span(f)), f |-> f1]
                  [] mode = "Workflow" -> [st |-> st1, f |-> initializer]
                  [] mode = "Client" -> [st |-> st1, f |-> f1]
        \* the workflow branch once the function is known to be an async workflow function
        as_workflow(s) ==
            LET st1 == [s EXCEPT !.workflow_function_names = @ \cup {f.name}]
                f1 == [f EXCEPT !.body = remove_use_workflow_directive(@)]
                thrown == [f EXCEPT !.body = throw_body(f.name, f.name)]
            IN  CASE mode = "Step" -> [st |-> pushed(st1), f |-> thrown]
                  [] mode = "Workflow" -> [st |-> st1, f |-> f1]
                  [] mode = "Client" ->
                       With(IF is_fn THEN has_use_workflow_directive(f.body)
                            ELSE has_workflow_directive_arrow(f, FALSE),
                            LAMBDA has_inline_directive :
                           [st |-> pushed(AddDiags(st1, has_inline_directive.diags)),
                            f |-> IF has_inline_directive.res THEN thrown ELSE f1])
        \* the declarator once the directive checks are made: hs is the step
        \* check, hw the workflow check, each with the async test it comes with
        classified(hs, step_ok, hw, workflow_ok) ==
            LET st0 == AddDiags(st, hs.diags)
                st1 == AddDiags(st0, hw.diags)
            IN  IF hs.res
                THEN IF step_ok THEN as_step(st0)
                     ELSE [st |-> AddDiags(st0, {NonAsyncFunction(fn_span(f), "use step")}),
                           f |-> f]
                ELSE IF hw.res
                THEN IF workflow_ok THEN as_workflow(st1)
                     ELSE [st |-> AddDiags(st1, {NonAsyncFunction(fn_span(f), "use workflow")}),
                           f |-> f]
                ELSE [st |-> st1, f |-> f]
    IN  With(IF is_fn
             THEN classified(should_transform_function(f, TRUE), TRUE,
                             should_transform_workflow_function(f, TRUE), TRUE)
             ELSE classified(has_step_directive_arrow(f, TRUE), f.is_async,
                             has_workflow_directive_arrow(f, TRUE), f.is_async),
             LAMBDA r : visit_mut_var_decl(r.st, r.f))

(***************************************************************************)
(* Classes.  A class item is [kind |-> "class", class_name, fkind, name,   *)
(* is_async, body, at, hooks]: the declaration of class_name with one      *)
(* method name, static or instance (fkind), and the static methods keyed   *)
(* by the serialization symbols named in hooks.  A class whose method was  *)
(* stripped has fkind "empty".                                             *)
(***************************************************************************)
\* the names of the two serialization symbols
SerializationSymbols == {"workflow-serialize", "workflow-deserialize"}

\* lib.rs: has_custom_serialization_methods: both hooks are static members
has_custom_serialization_methods_either(c) == c.hooks # {}

has_custom_serialization_methods(c) ==
    "workflow-serialize" \in c.hooks /\ "workflow-deserialize" \in c.hooks

\* HANDLER.struct_span_err(span, msg).emit(): a report made without WorkflowErrorKind
struct_span_err(span, msg) ==
    [kind |-> "struct_span_err", span |-> span, directive |-> "", detail |-> msg]

\* method.visit_mut_children_with(self): the method's function is visited
visit_method_children(st, m) == [st |-> visit_mut_function(st, m), f |-> m]

\* lib.rs: visit_mut_class_method, an instance method
visit_mut_class_method_instance(st, m) ==
    With(has_use_step_directive(m.body), LAMBDA has_step :
    With(has_use_workflow_directive(m.body), LAMBDA has_workflow :
    LET st0 == AddDiags(st, has_step.diags \cup has_workflow.diags)
    IN  IF has_workflow.res
        THEN [st |-> AddDiags(st0, {struct_span_err(<<m.at>>,
                         "Instance methods cannot be marked with \"use workflow\". Only static methods, functions, and object methods are supported.")}),
              f |-> m]
        ELSE IF has_step.res
        THEN IF ~m.is_async
             THEN [st |-> AddDiags(st0, {NonAsyncFunction(fn_span(m), "use step")}), f |-> m]
             ELSE IF ~st.current_class_name.some THEN visit_method_children(st0, m)
             ELSE LET class_name == st.current_class_name.val
                      full_name == class_name \o "#" \o m.name
                      hoisted_parent_name == class_name \o "$" \o m.name
                      st1 == [st0 EXCEPT !.step_function_names = @ \cup {full_name},
                                         !.classes_needing_serialization = @ \cup {class_name}]
                      step_id == create_id(Self, Some(full_name), lo(fn_span(m)), FALSE)
                      entry == [class_name |-> class_name, method_name |-> m.name,
                                id |-> step_id]
                      m1 == [m EXCEPT !.body = remove_use_step_directive(@)]
                      under_parent(s) ==
                          [visit_mut_function(
                               [s EXCEPT !.current_parent_function_name =
                                             Some(hoisted_parent_name)], m1)
                             EXCEPT !.current_parent_function_name =
                                        st.current_parent_function_name]
                  IN  CASE mode = "Workflow" ->
                             [st |-> [st1 EXCEPT !.instance_step_methods_to_strip =
                                                     Append(@, entry)],
                              f |-> m1]
                        [] OTHER ->
                             [st |-> under_parent(
                                         IF mode = "Step"
                                         THEN [st1 EXCEPT !.instance_method_step_registrations =
                                                              Append(@, entry)]
                                         ELSE st1),
                              f |-> m1]
        ELSE visit_method_children(st0, m)))

\* lib.rs: visit_mut_class_method, a static method
visit_mut_class_method_static(st, m) ==
    With(has_use_step_directive(m.body), LAMBDA has_step :
    With(has_use_workflow_directive(m.body), LAMBDA has_workflow :
    LET st0 == AddDiags(st, has_step.diags \cup has_workflow.diags)
    IN  IF ~(has_step.res \/ has_workflow.res) THEN visit_method_children(st0, m)
        ELSE IF ~m.is_async
        THEN [st |-> AddDiags(st0, {NonAsyncFunction(
                                        fn_span(m),
                                        IF has_step.res THEN "use step" ELSE "use workflow")}),
              f |-> m]
        ELSE IF ~st.current_class_name.some THEN visit_method_children(st0, m)
        ELSE LET class_name == st.current_class_name.val
                 full_name == class_name \o "." \o m.name
                 entry(id) == [class_name |-> class_name, method_name |-> m.name, id |-> id]
                 step_id == create_id(Self, Some(full_name), lo(fn_span(m)), FALSE)
                 workflow_id == create_id(Self, Some(full_name), lo(fn_span(m)), TRUE)
             IN  IF has_step.res
                 THEN LET st1 == [st0 EXCEPT
                                     !.step_function_names = @ \cup {full_name},
                                     !.classes_needing_serialization = @ \cup {class_name}]
                          m1 == [m EXCEPT !.body = remove_use_step_directive(@)]
                      IN  CASE mode = "Workflow" ->
                                 [st |-> [st1 EXCEPT !.static_step_methods_to_strip =
                                                         Append(@, entry(step_id))],
                                  f |-> m1]
                            [] OTHER ->
                                 visit_method_children(
                                     IF mode = "Step"
                                     THEN [st1 EXCEPT !.static_method_step_registrations =
                                                          Append(@, entry(step_id))]
                                     ELSE st1, m1)
                 ELSE LET st1 == [st0 EXCEPT !.workflow_function_names = @ \cup {full_name}]
                          pushed == [st1 EXCEPT !.static_method_workflow_registrations =
                                                    Append(@, entry(workflow_id))]
                      IN  IF mode = "Workflow"
                          THEN visit_method_children(
                                   pushed, [m EXCEPT !.body = remove_use_workflow_directive(@)])
                          ELSE [st |-> pushed,
                                f |-> [m EXCEPT !.body = throw_body(full_name, "workflow")]]))

visit_mut_class_method_all_instance(st, m) == visit_mut_class_method_instance(st, m)

visit_mut_class_method(st, m) ==
    IF m.fkind = "instance" THEN visit_mut_class_method_instance(st, m)
    ELSE visit_mut_class_method_static(st, m)

\* lib.rs: visit_mut_class_decl: the class body visited under the class's name;
\* in Workflow mode the step methods queued for stripping leave the class body
visit_mut_class_decl(st, c) ==
    With(visit_mut_class_method(
             [st EXCEPT !.current_class_name = Some(c.class_name),
                        !.classes_needing_serialization =
                            IF has_custom_serialization_methods(c)
                            THEN @ \cup {c.class_name} ELSE @], c),
         LAMBDA r :
        LET to_strip(list) ==
                {list[i].method_name : i \in {j \in 1..Len(list) :
                                                  list[j].class_name = c.class_name}}
            static_methods_to_strip == to_strip(r.st.static_step_methods_to_strip)
            instance_methods_to_strip == to_strip(r.st.instance_step_methods_to_strip)
            retained == IF c.fkind = "static" THEN c.name \notin static_methods_to_strip
                        ELSE c.name \notin instance_methods_to_strip
        IN  [st |-> [r.st EXCEPT !.current_class_name = st.current_class_name],
             f |-> IF mode = "Workflow" /\ ~retained
                   THEN [kind |-> "class", class_name |-> c.class_name, fkind |-> "empty",
                         hooks |-> c.hooks, at |-> c.at]
                   ELSE r.f])

\* lib.rs: visit_mut_export_default_decl, DefaultDecl::Fn with a name:
\* export default [async] function name() {..}
visit_mut_export_default_decl(st, f) ==
    With(should_transform_workflow_function(f, TRUE), LAMBDA sw :
    With(should_transform_function(f, TRUE), LAMBDA sf :
    LET fn_name == f.name
        st0 == AddDiags(st, sw.diags)
    IN
    With(IF sw.res
         THEN With(IF fn_name = "default"
                   THEN generate_unique_name(st.declared_identifiers, "__default")
                   ELSE fn_name, LAMBDA const_name :
              LET st1 == [st0 EXCEPT !.workflow_export_to_const_name = Some(const_name),
                                     !.workflow_function_names = @ \cup {"default"}]
                  thrown == [f EXCEPT !.body = throw_body(const_name, const_name)]
                  cleaned == [f EXCEPT !.body = remove_use_workflow_directive(@)]
                  tracked(s, g) ==
                      [s EXCEPT !.default_workflow_exports =
                                    Append(@, [const_name |-> const_name, fn_expr |-> g,
                                               span |-> fn_span(g)])]
              IN  IF mode \in {"Step", "Client"}
                  THEN [st |-> IF fn_name = "default" THEN tracked(st1, thrown)
                               ELSE [st1 EXCEPT !.workflow_functions_needing_id =
                                                    Append(@, const_name)],
                        f |-> thrown]
                  ELSE [st |-> IF fn_name = "default" THEN tracked(st1, cleaned) ELSE st1,
                        f |-> cleaned])
         ELSE LET st1 == AddDiags(st0, sf.diags)
              IN  IF sf.res
                  THEN LET st2 == [st1 EXCEPT !.step_function_names = @ \cup {fn_name}]
                           f1 == [f EXCEPT !.body = remove_use_step_directive(@)]
                       IN  CASE mode = "Step" ->
                                  [st |-> create_registration_call(st2, fn_name, fn_span(f)),
                                   f |-> f1]
                             [] mode = "Workflow" ->
                                  [st |-> st2,
                                   f |-> [f EXCEPT !.body =
                                             return_proxy_body(
                                                 create_id(Self, Some(fn_name),
                                                           lo(fn_span(f)), FALSE))]]
                             [] mode = "Client" -> [st |-> st2, f |-> f1]
                  ELSE [st |-> st1, f |-> f],
         LAMBDA r : [st |-> visit_mut_function(r.st, r.f), f |-> r.f])))

(***************************************************************************)
(* SpecId: the identity functions over drawn arguments                     *)
(***************************************************************************)
Sources ==
    {[module_specifier |-> Some(s), filename |-> "a.ts"] : s \in Strs(MaxStrLen)}
    \cup {[module_specifier |-> None, filename |-> f] : f \in Filenames}

SpanLos == {"7"}

IdInputs ==
    [self : Sources, kind : {"step", "workflow", "class"}, fn_name : {Some(n) : n \in Names},
     span_lo : SpanLos]
    \cup [self : Sources, kind : {"step", "workflow"}, fn_name : {None}, span_lo : SpanLos]

\* the (kind, modulePath, name) triple an input stands for
Triple(t) ==
    <<t.kind, self_get_module_path(t.self), IF t.fn_name.some THEN t.fn_name.val ELSE t.span_lo>>

\* the identity string the program computes for an input
identity(t) ==
    IF t.kind = "class" THEN class_id(t.self, t.fn_name.val)
    ELSE create_id(t.self, t.fn_name, t.span_lo, t.kind = "workflow")

\* lib.rs: StepTransform::new: the fields the pass starts from
NewTransform ==
    /\ has_file_step_directive = FALSE
    /\ has_file_workflow_directive = FALSE
    /\ diagnostics = {}
    /\ step_function_names = {}
    /\ workflow_function_names = {}
    /\ registered_functions = {}
    /\ registration_calls = <<>>
    /\ step_exports_to_convert = <<>>
    /\ workflow_functions_needing_id = <<>>
    /\ in_step_function = FALSE
    /\ in_workflow_function = FALSE
    /\ in_module_level = TRUE
    /\ current_workflow_function_name = None
    /\ current_parent_function_name = None
    /\ items_to_insert = <<>>
    /\ current_class_name = None
    /\ current_class_binding_name = None
    /\ classes_needing_serialization = {}
    /\ classes_for_manifest = {}
    /\ static_method_step_registrations = <<>>
    /\ instance_method_step_registrations = <<>>
    /\ static_step_methods_to_strip = <<>>
    /\ instance_step_methods_to_strip = <<>>
    /\ static_method_workflow_registrations = <<>>
    /\ workflow_export_to_const_name = None
    /\ object_property_step_functions = <<>>
    /\ object_property_workflow_conversions = <<>>
    /\ declared_identifiers = {}
    /\ default_workflow_exports = <<>>
    /\ nested_step_functions = <<>>
    /\ anonymous_fn_counter = 0
    /\ module_imports = {}

\* lib.rs: ClosureVariableCollector::new
NewCollector ==
    /\ closure_vars = {}
    /\ local_vars = {}
    /\ params = {}

\* the identity variables of a run that computes no identity on its own
NoIdInput ==
    [self |-> [module_specifier |-> None, filename |-> ""], kind |-> "", fn_name |-> None,
     span_lo |-> ""]

InitId ==
    /\ id_in \in IdInputs
    /\ id_out = ""
    /\ filename = id_in.self.filename
    /\ module_specifier = id_in.self.module_specifier
    /\ mode = "Step"
    /\ source = <<>>
    /\ items = <<>>
    /\ NewTransform
    /\ NewCollector
    /\ pc = "id"

CreateId ==
    /\ pc = "id"
    /\ id_in.kind # "class"
    /\ id_out' = create_id(Self, id_in.fn_name, id_in.span_lo, id_in.kind = "workflow")
    /\ pc' = "id_done"
    /\ UNCHANGED <<nvars, ovars, mode, filename, module_specifier, source, items, has_file_step_directive,
                   has_file_workflow_directive, diagnostics, tvars, id_in>>

ClassId ==
    /\ pc = "id"
    /\ id_in.kind = "class"
    /\ id_out' = class_id(Self, id_in.fn_name.val)
    /\ pc' = "id_done"
    /\ UNCHANGED <<nvars, ovars, mode, filename, module_specifier, source, items, has_file_step_directive,
                   has_file_workflow_directive, diagnostics, tvars, id_in>>

NextId == CreateId \/ ClassId

SpecId == InitId /\ [][NextId]_vars


(***************************************************************************)
(* SpecScan: the head of visit_mut_module_items (lib.rs 4605-4646) over    *)
(* drawn sequences of module items                                         *)
(***************************************************************************)
MaxItems == 3

ScanItemKinds ==
    {[kind |-> "lit", val |-> v] : v \in {"use step", "use workflow", "use steps", "use strict"}}
    \cup {[kind |-> k, val |-> ""] : k \in {"expr", "import", "other"}}

\* the items of a module, each at its source position
Positioned(seq) == [i \in 1..Len(seq) |-> [kind |-> seq[i].kind, val |-> seq[i].val, at |-> i]]

ScanModules ==
    UNION {{Positioned(seq) : seq \in [1..n -> ScanItemKinds]} : n \in 0..MaxItems}

InitScan ==
    /\ mode \in {"Step", "Workflow", "Client"}
    /\ filename = "a.ts"
    /\ module_specifier = None
    /\ source \in ScanModules
    /\ items = source
    /\ NewTransform
    /\ NewCollector
    /\ id_in = NoIdInput
    /\ id_out = ""
    /\ pc = "scan"

ModuleDirectives ==
    /\ pc = "scan"
    /\ declared_identifiers' = collect_declared_identifiers(items)
    /\ LET s == check_module_directive(items)
           w == check_module_workflow_directive(items)
       IN  /\ has_file_step_directive' = s.found
           /\ has_file_workflow_directive' = w.found
           /\ diagnostics' = diagnostics \cup s.diags \cup w.diags
    /\ items' = remove_file_directive(mode, items)
    /\ pc' = "visit"
    /\ UNCHANGED <<default_workflow_exports, ovars, mode, filename, module_specifier, source,
                   tvars, id_in, id_out>>

NextScan == ModuleDirectives

SpecScan == InitScan /\ [][NextScan]_vars

(***************************************************************************)
(* Spec: one run of the transform over a module: the directive scan, the   *)
(* walk over the items, the rest of visit_mut_module_items, then the rest  *)
(* of visit_mut_program                                                    *)
(***************************************************************************)
Modes == {"Step", "Workflow", "Client"}

\* the StepTransform fields as the record the handlers thread
CurrentSt ==
    [diagnostics |-> diagnostics,
     step_function_names |-> step_function_names,
     workflow_function_names |-> workflow_function_names,
     registered_functions |-> registered_functions,
     registration_calls |-> registration_calls,
     step_exports_to_convert |-> step_exports_to_convert,
     workflow_functions_needing_id |-> workflow_functions_needing_id,
     in_step_function |-> in_step_function,
     in_workflow_function |-> in_workflow_function,
     in_module_level |-> in_module_level,
     current_workflow_function_name |-> current_workflow_function_name,
     current_parent_function_name |-> current_parent_function_name,
     current_class_name |-> current_class_name,
     current_class_binding_name |-> current_class_binding_name,
     classes_needing_serialization |-> classes_needing_serialization,
     classes_for_manifest |-> classes_for_manifest,
     static_method_step_registrations |-> static_method_step_registrations,
     instance_method_step_registrations |-> instance_method_step_registrations,
     static_step_methods_to_strip |-> static_step_methods_to_strip,
     instance_step_methods_to_strip |-> instance_step_methods_to_strip,
     static_method_workflow_registrations |-> static_method_workflow_registrations,
     workflow_export_to_const_name |-> workflow_export_to_const_name,
     declared_identifiers |-> declared_identifiers,
     default_workflow_exports |-> default_workflow_exports,
     mode |-> mode,
     nested_step_functions |-> nested_step_functions,
     anonymous_fn_counter |-> anonymous_fn_counter,
     module_imports |-> module_imports]

\* the file-level directive an InvalidExport report names
file_directive == IF has_file_step_directive THEN "use step" ELSE "use workflow"

\* lib.rs: visit_mut_module_items, the export validation under a file-level directive
validate_export(item) ==
    IF ~(has_file_step_directive \/ has_file_workflow_directive) THEN {}
    ELSE IF item.kind \in {"export_fn", "export_var", "export_default"} /\ ~item.is_async
    THEN {InvalidExport(<<item.at>>, file_directive)}
    ELSE {}

\* lib.rs: item.visit_mut_with(self), by the shape of the item
visit_item(st, item) ==
    CASE item.kind = "export_fn" -> visit_mut_export_decl_fn(st, item)
      [] item.kind = "fn" -> process_stmt_fn(st, item)
      [] item.kind = "export_var" -> visit_mut_export_decl_var(st, item)
      [] item.kind = "var" -> visit_mut_var_decl(st, item)
      [] item.kind = "export_default" -> visit_mut_export_default_decl(st, item)
      [] item.kind = "class" -> visit_mut_class_decl(st, item)
      [] OTHER -> [st |-> st, f |-> item]

\* the name a workflow id is made from: the generated names of anonymous
\* default exports stand as "default"
workflow_id_name(st, fn_name) ==
    IF (fn_name = "__default" \/ starts_with(fn_name, "__default$"))
       /\ st.workflow_export_to_const_name = Some(fn_name)
    THEN "default"
    ELSE fn_name

\* lib.rs: create_workflow_id_assignment: name.workflowId = "workflow//<path>//name"
create_workflow_id_assignment(st, fn_name, span) ==
    [kind |-> "workflowId", name |-> fn_name,
     id |-> create_id(Self, Some(workflow_id_name(st, fn_name)), lo(span), TRUE)]

\* lib.rs: create_workflow_registration: the workflow added to the private map
create_workflow_registration(st, fn_name, span) ==
    [kind |-> "workflowRegistration", name |-> fn_name,
     id |-> create_id(Self, Some(workflow_id_name(st, fn_name)), lo(span), TRUE)]

\* lib.rs: visit_mut_module_items: what is queued for insertion after item i
\* (0-based index i + 1 is the 1-based index i of the model)
inserts_after(st, item, i) ==
    IF \/ /\ item.kind \in {"export_fn", "fn", "export_var", "var"}
          /\ item.name \in st.workflow_function_names
       \/ /\ item.kind = "export_default"
          /\ "default" \in st.workflow_function_names
    THEN << <<i, create_workflow_id_assignment(st, item.name, <<item.at>>)>> >>
         \o (IF mode = "Workflow"
             THEN << <<i, create_workflow_registration(st, item.name, <<item.at>>)>> >>
             ELSE <<>>)
    ELSE <<>>

\* lib.rs: visit_mut_module_items, the loop over the items
RECURSIVE visit_items_loop(_, _, _, _)
visit_items_loop(st, its, i, inserts) ==
    IF i > Len(its) THEN [st |-> st, items |-> its, inserts |-> inserts]
    ELSE With(visit_item(AddDiags(st, validate_export(its[i])), its[i]), LAMBDA r :
             visit_items_loop(r.st, [its EXCEPT ![i] = r.f], i + 1,
                              inserts \o inserts_after(r.st, r.f, i)))

\* Vec::insert at a 0-based index
insert_at(its, index, item) ==
    SubSeq(its, 1, index) \o <<item>> \o SubSeq(its, index + 1, Len(its))

\* lib.rs: visit_mut_module_items: the queued items inserted in reverse order
RECURSIVE insert_reversed(_, _, _)
insert_reversed(its, inserts, k) ==
    IF k = 0 THEN its
    ELSE insert_reversed(insert_at(its, inserts[k][1], inserts[k][2]), inserts, k - 1)

\* lib.rs: visit_mut_module_items, Workflow mode: a declaration whose name is a
\* step function becomes  var name = <step initializer>
convert_step_item_kept(st, item) == item

convert_step_item(st, item) ==
    IF item.kind \in {"export_fn", "fn", "export_var", "var"}
       /\ item.name \in st.step_function_names
    THEN [kind |-> IF item.kind \in {"export_fn", "export_var"} THEN "export_var" ELSE "var",
          fkind |-> "initializer",
          name |-> item.name,
          init |-> create_step_initializer(
                       create_id(Self, Some(item.name), lo(<<item.at>>), FALSE)),
          at |-> item.at]
    ELSE item

convert_step_items(st, its) ==
    IF mode = "Workflow" THEN [i \in 1..Len(its) |-> convert_step_item(st, its[i])]
    ELSE its

SelectItems(its, keep(_)) ==
    LET F[i \in 0..Len(its)] ==
            IF i = 0 THEN <<>>
            ELSE IF keep(its[i]) THEN Append(F[i - 1], its[i]) ELSE F[i - 1]
    IN  F[Len(its)]

\* lib.rs: ComprehensiveUsageCollector::visit_mut_ident: the name of the
\* function declaration being visited is not tracked
usage_of_ident(current_function, name) ==
    IF current_function = Some(name) THEN {} ELSE {name}

\* the binding identifiers of the parameters are identifiers the collector visits
usage_of_params(current_function, fn_params) ==
    UNION {usage_of_ident(current_function, n) :
               n \in UNION {collect_idents_from_pat(fn_params[i]) :
                                i \in 1..Len(fn_params)}}

\* lib.rs: ComprehensiveUsageCollector, the walk through statements and
\* expressions.  names is step_function_names, cur is current_function.
RECURSIVE usage_in_stmts(_, _, _)
RECURSIVE usage_in_stmt(_, _, _)
RECURSIVE usage_in_expr(_, _, _)
RECURSIVE usage_in_declarators(_, _, _)

\* lib.rs: visit_mut_call_expr, visit_mut_ident and the default walk of the
\* other expressions
usage_in_expr(names, cur, e) ==
    CASE e.kind = "ident" -> usage_of_ident(cur, e.sym)
      [] e.kind = "call" ->
             (IF "callee" \in DOMAIN e
              THEN (IF e.callee.kind = "ident" THEN {e.callee.sym} ELSE {})
                   \cup usage_in_expr(names, cur, e.callee)
              ELSE {})
             \cup UNION {usage_in_expr(names, cur, e.args[i]) : i \in 1..Len(e.args)}
      [] e.kind = "member" -> usage_in_expr(names, cur, e.obj)
      [] e.kind \in {"arrow", "fn_expr"} ->
             usage_of_params(cur, e.params) \cup usage_in_stmts(names, cur, e.body.stmts)
      \* globalThis[Symbol.for("WORKFLOW_USE_STEP")]("id", () => ({ a, b }))
      [] e.kind = "step_proxy_reference" ->
             UNION {usage_of_ident(cur, n) :
                        n \in {"globalThis", "Symbol"}
                              \cup {e.closure_vars[i] : i \in 1..Len(e.closure_vars)}}
      [] e.kind = "step_initializer" ->
             UNION {usage_of_ident(cur, n) : n \in {"globalThis", "Symbol"}}
      [] OTHER -> {}

\* lib.rs: visit_mut_var_declarator: the initializer only, and not even that
\* when it is a function bound to the name of a step function
usage_in_declarators(names, cur, decls) ==
    UNION {IF decls[i].init = <<>> THEN {}
           ELSE IF /\ decls[i].name.kind = "ident"
                   /\ decls[i].init[1].kind \in {"arrow", "fn_expr"}
                   /\ decls[i].name.sym \in names
           THEN {}
           ELSE usage_in_expr(names, cur, decls[i].init[1]) : i \in 1..Len(decls)}

\* lib.rs: visit_mut_fn_decl, visit_mut_export_decl, visit_mut_var_declarator
\* and the default walk of the other statements and module items
usage_in_stmt(names, cur, stmt) ==
    CASE stmt.kind \in {"fn", "fn_decl", "export_fn"} ->
             IF stmt.name \in names THEN {}
             ELSE usage_of_params(Some(stmt.name),
                                  IF "params" \in DOMAIN stmt THEN stmt.params ELSE <<>>)
                  \cup usage_in_stmts(names, Some(stmt.name), stmt.body.stmts)
      [] stmt.kind \in {"var", "export_var"} ->
             IF "decls" \in DOMAIN stmt THEN usage_in_declarators(names, cur, stmt.decls)
             ELSE IF "init" \in DOMAIN stmt THEN usage_in_expr(names, cur, stmt.init)
             ELSE IF stmt.name \in names THEN {}
             ELSE usage_in_stmts(names, cur, stmt.body.stmts)
      [] stmt.kind = "export_default" -> usage_in_stmts(names, cur, stmt.body.stmts)
      [] stmt.kind = "class" ->
             usage_of_ident(cur, stmt.class_name)
             \cup (IF "methods" \in DOMAIN stmt
                   THEN UNION {usage_in_stmts(names, cur, stmt.methods[i].body.stmts) :
                                   i \in 1..Len(stmt.methods)}
                   ELSE usage_in_stmts(names, cur, stmt.body.stmts))
      [] stmt.kind = "expr" ->
             IF "expr" \in DOMAIN stmt THEN usage_in_expr(names, cur, stmt.expr)
             ELSE IF stmt.val = "arguments" THEN usage_of_ident(cur, "arguments")
             ELSE {}
      [] stmt.kind = "ident" -> usage_of_ident(cur, stmt.name)
      [] stmt.kind = "return" ->
             IF "arg" \in DOMAIN stmt
             THEN UNION {usage_in_expr(names, cur, stmt.arg[i]) : i \in 1..Len(stmt.arg)}
             ELSE {}
      \* throw new Error("...")
      [] stmt.kind = "throw" -> usage_of_ident(cur, "Error")
      \* return globalThis[Symbol.for("WORKFLOW_USE_STEP")]("id")(...)
      [] stmt.kind \in {"return_proxy", "proxy_expr"} ->
             UNION {usage_of_ident(cur, n) : n \in {"globalThis", "Symbol"}}
      \* name.workflowId = "id"
      [] stmt.kind = "workflowId" -> usage_of_ident(cur, stmt.name)
      \* globalThis.__private_workflows.set("id", name)
      [] stmt.kind = "workflowRegistration" ->
             UNION {usage_of_ident(cur, n) : n \in {"globalThis", stmt.name}}
      [] OTHER -> {}

usage_in_stmts(names, cur, stmts) ==
    UNION {usage_in_stmt(names, cur, stmts[i]) : i \in 1..Len(stmts)}

\* lib.rs: ComprehensiveUsageCollector::visit_mut_module_item: an import is
\* skipped, every other item is walked
used_identifiers(st, its) ==
    UNION {IF its[i].kind = "import" THEN {}
           ELSE usage_in_stmt(st.step_function_names, None, its[i]) : i \in 1..Len(its)}

\* lib.rs: analyze_usage_comprehensive: the exported functions that are not
\* step functions and the exported variables, then what the collector finds
exported_identifiers(st, its) ==
    UNION {CASE its[i].kind = "export_fn" ->
                    IF its[i].name \in st.step_function_names THEN {} ELSE {its[i].name}
             [] its[i].kind = "export_var" -> {its[i].name}
             [] OTHER -> {} : i \in 1..Len(its)}

analyze_usage_comprehensive(st, its) ==
    exported_identifiers(st, its) \cup used_identifiers(st, its)

\* lib.rs: remove_dead_code: a name no code refers to and no function set holds
unused_name(st, used, name) ==
    /\ name \notin used
    /\ name \notin st.step_function_names
    /\ name \notin st.workflow_function_names

\* lib.rs: remove_dead_code, the test on one statement item
dead(st, used, item) ==
    CASE item.kind = "fn" -> unused_name(st, used, item.name)
      [] item.kind = "var" ->
             IF "decls" \in DOMAIN item
             THEN \A i \in 1..Len(item.decls) :
                      /\ item.decls[i].name.kind = "ident"
                      /\ unused_name(st, used, item.decls[i].name.sym)
             ELSE unused_name(st, used, item.name)
      [] item.kind = "ident" -> TRUE
      [] item.kind = "expr" -> "expr" \in DOMAIN item /\ item.expr.kind = "ident"
      [] item.kind = "empty" -> TRUE
      [] OTHER -> FALSE

\* lib.rs: remove_dead_code, the imports: the specifiers whose local name is
\* used are kept, an import that keeps none is removed
kept_specifiers(used, item) ==
    IF "specifiers" \in DOMAIN item
    THEN SelectSeq(item.specifiers, LAMBDA spec : spec.local \in used)
    ELSE <<>>

prune_imports(used, its) ==
    LET F[i \in 0..Len(its)] ==
            IF i = 0 THEN <<>>
            ELSE IF its[i].kind # "import" THEN Append(F[i - 1], its[i])
            ELSE IF kept_specifiers(used, its[i]) = <<>> THEN F[i - 1]
            ELSE Append(F[i - 1],
                        [its[i] EXCEPT !.specifiers = kept_specifiers(used, its[i])])
    IN  F[Len(its)]

\* lib.rs: remove_dead_code, one turn of the loop: the usage is analysed
\* once, then the statements and the imports are filtered against it
remove_dead_code_pass(st, its) ==
    With(analyze_usage_comprehensive(st, its), LAMBDA used :
        prune_imports(used, SelectItems(its, LAMBDA item : ~dead(st, used, item))))

\* a loop with no way out
loop_is_never_left(its, kept) == FALSE

\* lib.rs: remove_dead_code: the loop is left after a turn that removed no
\* statement and removed or narrowed no import
loop_is_left(its, kept) == kept = its

RECURSIVE remove_dead_code_loop(_, _)

\* the loop left after its first turn
remove_dead_code_once(st, its) == remove_dead_code_pass(st, its)

\* lib.rs: remove_dead_code: Workflow and Client mode only, until a turn
\* changes nothing
remove_dead_code_loop(st, its) ==
    With(remove_dead_code_pass(st, its), LAMBDA kept :
        IF loop_is_left(its, kept) THEN its ELSE remove_dead_code_loop(st, kept))

remove_dead_code(st, its) ==
    IF mode \in {"Workflow", "Client"} THEN remove_dead_code_loop(st, its) ELSE its

\* lib.rs: generate_metadata_comment: the manifest of the step functions, the
\* workflow functions and the serializable classes
generate_metadata_comment(st) ==
    LET actual_name(n) ==
            IF n = "default" /\ st.workflow_export_to_const_name.some
            THEN st.workflow_export_to_const_name.val
            ELSE n
        id_name(n) ==
            IF (actual_name(n) = "__default" \/ starts_with(actual_name(n), "__default$"))
               /\ n = "default"
            THEN "default"
            ELSE actual_name(n)
    IN  [kind |-> "metadata",
         steps |-> {[name |-> n, stepId |-> create_id(Self, Some(n), "0", FALSE)] :
                        n \in st.step_function_names},
         workflows |-> {[name |-> n,
                         workflowId |-> create_id(Self, Some(id_name(n)), "0", TRUE)] :
                            n \in st.workflow_function_names},
         classes |-> {[name |-> c, classId |-> class_id(Self, c)] :
                          c \in st.classes_for_manifest}]

metadata_is_empty(st) ==
    /\ st.step_function_names = {}
    /\ st.workflow_function_names = {}
    /\ st.classes_for_manifest = {}

\* lib.rs: create_class_serialization_registration:
\* registerSerializationClass("class//<path>//Name", Name)
create_class_serialization_registration(class_name) ==
    [kind |-> "registerSerializationClass", id |-> class_id(Self, class_name),
     name |-> class_name]

\* the drained set of classes as a sequence (sorted; the model has one class name)
RECURSIVE sorted_classes(_)
sorted_classes(S) ==
    IF S = {} THEN <<>>
    ELSE LET c == CHOOSE x \in S : TRUE IN <<c>> \o sorted_classes(S \ {c})

\* the statements made of the entries of a method work list
method_items(list, kind, target(_)) ==
    [i \in 1..Len(list) |-> [kind |-> kind, id |-> list[i].id, name |-> target(list[i])]]

\* Class.method and Class.prototype.method
static_target(e) == e.class_name \o "." \o e.method_name

instance_target_unprototyped(e) == e.class_name \o "." \o e.method_name

instance_target(e) == e.class_name \o ".prototype." \o e.method_name

\* lib.rs: visit_mut_program: the statements for the static workflow methods:
\* Class.method.workflowId = id, and in Workflow mode the registration too
RECURSIVE static_workflow_items(_, _)
static_workflow_items(list, i) ==
    IF i > Len(list) THEN <<>>
    ELSE << [kind |-> "workflowId", name |-> static_target(list[i]), id |-> list[i].id] >>
         \o (IF mode = "Workflow"
             THEN << [kind |-> "workflowRegistration", name |-> static_target(list[i]),
                      id |-> list[i].id] >>
             ELSE <<>>)
         \o static_workflow_items(list, i + 1)

\* lib.rs: visit_mut_program, Step mode, one entry of nested_step_functions:
\* the name it is hoisted under and the name its identity is made of
nested_hoisted_name(e) ==
    IF e.parent_workflow_name = "" THEN e.fn_name
    ELSE e.parent_workflow_name \o "$" \o e.fn_name

nested_step_fn_name(e) ==
    IF e.parent_workflow_name = "" THEN e.fn_name
    ELSE e.parent_workflow_name \o "/" \o e.fn_name

\* const { v1, v2 } = __private_getClosureVars(); as the first statement
closure_destructure(closure_vars_of_fn) ==
    [kind |-> "closure_destructure", names |-> closure_vars_of_fn]

\* the declaration hoisted to module level: var name = async () => {..} for
\* what was an arrow, else async function name() {..}
nested_hoisted_decl(e) ==
    LET body == IF e.closure_vars # <<>>
                THEN [e.fn_expr.body EXCEPT
                         !.stmts = <<closure_destructure(e.closure_vars)>> \o @]
                ELSE e.fn_expr.body
    IN  IF e.was_arrow
        THEN [kind |-> "var", name |-> nested_hoisted_name(e), at |-> 0,
              decls |-> << [name |-> [kind |-> "ident", sym |-> nested_hoisted_name(e)],
                            init |-> << [e.fn_expr EXCEPT !.body = body] >>] >>]
        ELSE [kind |-> "fn", name |-> nested_hoisted_name(e), at |-> e.fn_expr.at,
              is_async |-> e.fn_expr.is_async, params |-> e.fn_expr.params, body |-> body]

\* registerStepFunction(step_id, hoisted_name)
nested_registration_call(e) ==
    [kind |-> "registerStepFunction",
     id |-> create_id(Self, Some(nested_step_fn_name(e)), lo(e.span), FALSE),
     name |-> nested_hoisted_name(e)]

\* position(|item| !Import).unwrap_or(0): the 0-based index the manifest is
\* inserted at
RECURSIVE first_non_import(_, _)
first_non_import(its, i) ==
    IF i > Len(its) THEN 0
    ELSE IF its[i].kind # "import" THEN i - 1
    ELSE first_non_import(its, i + 1)

insert_manifest(st, its) ==
    IF metadata_is_empty(st) THEN its
    ELSE insert_at(its, first_non_import(its, 1), generate_metadata_comment(st))

\* the declarations put in front of every item
hoist_at_start(its, hoisted) == hoisted \o its

\* module.body.insert(current_insert_pos, hoisted_decl) for every entry in
\* turn, current_insert_pos starting at the first item that is no import
hoist_at_imports_end(its, hoisted) ==
    With(first_non_import(its, 1), LAMBDA initial_insert_pos :
        SubSeq(its, 1, initial_insert_pos)
        \o hoisted
        \o SubSeq(its, initial_insert_pos + 1, Len(its)))

\* what the object-literal properties add to the program: the hoisted
\* declarations, the registration calls, the entries of the manifest
NoObjects == [hoisted |-> <<>>, calls |-> <<>>, steps |-> {}]

\* lib.rs: visit_mut_program after the walk: the imports, the hoisted
\* declarations, the statements pushed from the drained work lists, then the
\* manifest
finish_program_with(st, its, objects) ==
    LET needs_register_import ==
            \/ st.registration_calls # <<>>
            \/ objects.hoisted # <<>>
            \/ st.nested_step_functions # <<>>
            \/ st.static_method_step_registrations # <<>>
            \/ st.instance_method_step_registrations # <<>>
        needs_closure_import ==
            \E i \in 1..Len(st.nested_step_functions) :
                st.nested_step_functions[i].closure_vars # <<>>
        needs_class_serialization == st.classes_needing_serialization # {}
        imports ==
            (IF mode = "Step" /\ needs_register_import
             THEN << [kind |-> "import",
                      val |-> IF needs_closure_import
                              THEN "registerStepFunction, __private_getClosureVars"
                              ELSE "registerStepFunction"] >>
             ELSE <<>>)
            \o (IF needs_class_serialization
                THEN << [kind |-> "import", val |-> "registerSerializationClass"] >>
                ELSE <<>>)
        sorted == sorted_classes(st.classes_needing_serialization)
        class_registrations ==
            [i \in 1..Len(sorted) |-> create_class_serialization_registration(sorted[i])]
        nested == IF mode = "Step" THEN st.nested_step_functions ELSE <<>>
        pushed ==
            CASE mode = "Step" ->
                     st.registration_calls
                     \o [i \in 1..Len(nested) |-> nested_registration_call(nested[i])]
                     \o objects.calls
                     \o method_items(st.static_method_step_registrations,
                                     "registerStepFunction", static_target)
                     \o method_items(st.instance_method_step_registrations,
                                     "registerStepFunction", instance_target)
                     \o class_registrations
              [] mode = "Workflow" ->
                     method_items(st.static_step_methods_to_strip,
                                  "step_proxy_assignment", static_target)
                     \o method_items(st.instance_step_methods_to_strip,
                                     "step_proxy_assignment", instance_target)
                     \o class_registrations
              [] mode = "Client" -> class_registrations
        workflow_ids == static_workflow_items(st.static_method_workflow_registrations, 1)
        hoisted == [i \in 1..Len(nested) |-> nested_hoisted_decl(nested[i])]
                   \o (IF mode = "Step" THEN objects.hoisted ELSE <<>>)
        body == hoist_at_imports_end(imports \o its, hoisted) \o pushed \o workflow_ids
    IN  IF metadata_is_empty(st) /\ objects.steps = {} THEN body
        ELSE insert_at(body, first_non_import(body, 1),
                       [generate_metadata_comment(st) EXCEPT !.steps = @ \cup objects.steps])

finish_program(st, its) == finish_program_with(st, its, NoObjects)

\* the statements a drawn body is made of
MaxBody == 2

BodyStmts ==
    {[kind |-> "lit", val |-> v] : v \in {"use step", "use workflow", "use steps"}}
    \cup {[kind |-> "expr", val |-> v] : v \in {"this", "super", "arguments"}}
    \cup {[kind |-> "other", val |-> ""]}

\* the statements of the function at item position at, each with its span
Spanned(seq, at) ==
    [k \in 1..Len(seq) |-> [kind |-> seq[k].kind, val |-> seq[k].val, span |-> <<at, k>>]]

Bodies(at) ==
    {[wrapped |-> w, stmts |-> Spanned(seq, at)] :
        w \in BOOLEAN, seq \in UNION {[1..n -> BodyStmts] : n \in 0..MaxBody}}

\* the shapes a function comes in: the kind of the item and the kind of function
FnShapes ==
    {<<"export_fn", "decl">>, <<"fn", "decl">>,
     <<"export_var", "fn">>, <<"export_var", "arrow">>,
     <<"var", "fn">>, <<"var", "arrow">>,
     <<"export_default", "decl">>}

MethodKinds == {"static", "instance"}

FnItems(at) ==
    {[kind |-> sh[1], fkind |-> sh[2], name |-> "foo", is_async |-> a, body |-> b, at |-> at] :
        sh \in FnShapes, a \in BOOLEAN, b \in Bodies(at)}
    \cup {[kind |-> "class", class_name |-> "Bar", fkind |-> k, name |-> "foo",
           is_async |-> a, body |-> b, at |-> at, hooks |-> h] :
              k \in MethodKinds, a \in BOOLEAN, b \in Bodies(at),
              h \in SUBSET SerializationSymbols}

\* a module: an optional file-level directive, then one function
Modules ==
    {<<f>> : f \in FnItems(1)}
    \cup {<<[kind |-> "lit", val |-> d, at |-> 1], f>> :
              d \in {"use step", "use workflow"}, f \in FnItems(2)}

MainSources ==
    {[module_specifier |-> None, filename |-> "a/a.ts"],
     [module_specifier |-> Some("pkg@1"), filename |-> "a/a.ts"]}

Init ==
    /\ mode \in Modes
    /\ \E src \in MainSources :
          /\ filename = src.filename
          /\ module_specifier = src.module_specifier
    /\ source \in Modules
    /\ items = source
    /\ NewTransform
    /\ NewCollector
    /\ id_in = NoIdInput
    /\ id_out = ""
    /\ pc = "scan"

\* lib.rs: visit_mut_module_items, the loop over the items
VisitItems ==
    /\ pc = "visit"
    /\ \E r \in {visit_items_loop(CurrentSt, items, 1, <<>>)} :
           /\ items' = r.items
           /\ items_to_insert' = r.inserts
           /\ diagnostics' = r.st.diagnostics
           /\ step_function_names' = r.st.step_function_names
           /\ workflow_function_names' = r.st.workflow_function_names
           /\ registered_functions' = r.st.registered_functions
           /\ registration_calls' = r.st.registration_calls
           /\ step_exports_to_convert' = r.st.step_exports_to_convert
           /\ workflow_functions_needing_id' = r.st.workflow_functions_needing_id
           /\ in_step_function' = r.st.in_step_function
           /\ in_workflow_function' = r.st.in_workflow_function
           /\ in_module_level' = r.st.in_module_level
           /\ current_workflow_function_name' = r.st.current_workflow_function_name
           /\ current_parent_function_name' = r.st.current_parent_function_name
           /\ current_class_name' = r.st.current_class_name
           /\ current_class_binding_name' = r.st.current_class_binding_name
           /\ classes_needing_serialization' = r.st.classes_needing_serialization
           /\ static_method_step_registrations' = r.st.static_method_step_registrations
           /\ instance_method_step_registrations' = r.st.instance_method_step_registrations
           /\ static_step_methods_to_strip' = r.st.static_step_methods_to_strip
           /\ instance_step_methods_to_strip' = r.st.instance_step_methods_to_strip
           /\ static_method_workflow_registrations' = r.st.static_method_workflow_registrations
           /\ workflow_export_to_const_name' = r.st.workflow_export_to_const_name
           /\ default_workflow_exports' = r.st.default_workflow_exports
    /\ pc' = "insert"
    /\ UNCHANGED <<declared_identifiers, ovars, mode, filename, module_specifier, source, has_file_step_directive,
                   has_file_workflow_directive, classes_for_manifest, id_in, id_out>>

\* lib.rs: visit_mut_module_items after the loop: the queued insertions, the
\* Workflow-mode conversion of step declarations, dead code elimination
FinishModuleItems ==
    /\ pc = "insert"
    /\ LET inserted == insert_reversed(items, items_to_insert, Len(items_to_insert))
           converted == convert_step_items(CurrentSt, inserted)
       IN  items' = remove_dead_code(CurrentSt, converted)
    /\ items_to_insert' = <<>>
    /\ workflow_functions_needing_id' = <<>>
    /\ pc' = "program"
    /\ UNCHANGED <<nvars, ovars, mode, filename, module_specifier, source, has_file_step_directive,
                   has_file_workflow_directive, diagnostics, step_function_names,
                   workflow_function_names, registered_functions, registration_calls,
                   step_exports_to_convert, in_step_function, in_workflow_function,
                   in_module_level, current_workflow_function_name,
                   current_parent_function_name, cvars, id_in, id_out>>

\* lib.rs: visit_mut_program after visit_mut_children_with: the work lists are
\* drained into the statements pushed
FinishProgram ==
    /\ pc = "program"
    /\ classes_for_manifest' = classes_needing_serialization
    /\ items' = finish_program(
                    [CurrentSt EXCEPT !.classes_for_manifest = classes_needing_serialization],
                    items)
    /\ registration_calls' = IF mode = "Step" THEN <<>> ELSE registration_calls
    /\ nested_step_functions' = IF mode = "Step" THEN <<>> ELSE nested_step_functions
    /\ static_method_step_registrations' =
           IF mode = "Step" THEN <<>> ELSE static_method_step_registrations
    /\ instance_method_step_registrations' =
           IF mode = "Step" THEN <<>> ELSE instance_method_step_registrations
    /\ static_step_methods_to_strip' =
           IF mode = "Workflow" THEN <<>> ELSE static_step_methods_to_strip
    /\ instance_step_methods_to_strip' =
           IF mode = "Workflow" THEN <<>> ELSE instance_step_methods_to_strip
    /\ classes_needing_serialization' = {}
    /\ static_method_workflow_registrations' = <<>>
    /\ pc' = "done"
    /\ UNCHANGED <<nvars, object_property_step_functions,
                   object_property_workflow_conversions, anonymous_fn_counter,
                   module_imports, kvars, mode, filename, module_specifier, source, has_file_step_directive,
                   has_file_workflow_directive, diagnostics, step_function_names,
                   workflow_function_names, registered_functions,
                   step_exports_to_convert, workflow_functions_needing_id,
                   in_step_function, in_workflow_function,
                   in_module_level, current_workflow_function_name,
                   current_parent_function_name, items_to_insert, current_class_name,
                   current_class_binding_name,
                   workflow_export_to_const_name, id_in, id_out>>

Next == ModuleDirectives \/ VisitItems \/ FinishModuleItems \/ FinishProgram

Spec == Init /\ [][Next]_vars

(***************************************************************************)
(* Transform claims.  The function of a drawn module is its last item.     *)
(***************************************************************************)
SrcFn == source[Len(source)]

\* the statements the directive checks see first: the body's own, or those of
\* the try block of a using-wrapped body
starts_with_directive(f, directive) ==
    /\ Len(f.body.stmts) > 0
    /\ f.body.stmts[1].kind = "lit"
    /\ f.body.stmts[1].val = directive

\* the items of the output that declare name
decls_of(its, name) ==
    {its[i] : i \in {j \in 1..Len(its) :
                        its[j].kind \in {"export_fn", "fn", "export_var", "var"}
                        /\ its[j].name = name}}

registrations_of(its, name) ==
    {its[i] : i \in {j \in 1..Len(its) :
                        its[j].kind = "registerStepFunction" /\ its[j].name = name}}

\* the identity string the documentation gives for a step function
step_identity(name) == "step//" \o self_get_module_path(Self) \o "//" \o name

ExportedAsyncStep ==
    /\ SrcFn.kind = "export_fn"
    /\ SrcFn.is_async
    /\ starts_with_directive(SrcFn, "use step")

\* C1: for an exported top-level async function foo whose body starts with
\* "use step", the Workflow-mode output declares foo as the result of the step
\* proxy accessor called with "step//<modulePath>//foo", and holds no
\* registerStepFunction call for foo.
C1_WorkflowModeProxy ==
    (pc = "done" /\ mode = "Workflow" /\ ExportedAsyncStep) =>
        /\ decls_of(items, SrcFn.name) =
               {[kind |-> "export_var", fkind |-> "initializer", name |-> SrcFn.name,
                 init |-> [kind |-> "step_initializer", id |-> step_identity(SrcFn.name)],
                 at |-> SrcFn.at]}
        /\ registrations_of(items, SrcFn.name) = {}
        /\ registration_calls = <<>>

\* C1 witness: export async function foo() { "use step"; .. } through Workflow mode
C1_Witness ==
    /\ pc = "done"
    /\ mode = "Workflow"
    /\ ExportedAsyncStep
    /\ module_specifier = None
    /\ \E i \in 1..Len(items) :
          /\ items[i].kind = "export_var"
          /\ items[i].init = [kind |-> "step_initializer", id |-> "step//./a/a//foo"]

\* C2: for an exported top-level async function foo whose body starts with
\* "use step", the Step-mode output holds the call
\* registerStepFunction("step//<modulePath>//foo", foo), and the directive
\* statement is no longer in foo's body.
C2_StepModeRegistration ==
    (pc = "done" /\ mode = "Step" /\ ExportedAsyncStep) =>
        /\ [kind |-> "registerStepFunction", id |-> step_identity(SrcFn.name),
            name |-> SrcFn.name] \in registrations_of(items, SrcFn.name)
        /\ \A d \in decls_of(items, SrcFn.name) :
              /\ d.kind = "export_fn"
              /\ d.body.wrapped = SrcFn.body.wrapped
              /\ \A k \in 1..Len(d.body.stmts) :
                    d.body.stmts[k].span # SrcFn.body.stmts[1].span
        /\ decls_of(items, SrcFn.name) # {}

\* C2 witness: export async function foo() { "use step"; <other> } through Step
\* mode: the call is the last item, the body is left with the other statement
C2_Witness ==
    /\ pc = "done"
    /\ mode = "Step"
    /\ ExportedAsyncStep
    /\ Len(SrcFn.body.stmts) = 2
    /\ SrcFn.body.stmts[2].kind = "other"
    /\ module_specifier = Some("pkg@1")
    /\ items[Len(items)] = [kind |-> "registerStepFunction", id |-> "step//pkg@1//foo",
                            name |-> "foo"]
    /\ \E d \in decls_of(items, "foo") : Len(d.body.stmts) = 1


\* the declaration of the function in the output: the item that stands where
\* the function stood in the source
out_decls ==
    {items[i] : i \in {j \in 1..Len(items) : items[j].kind = SrcFn.kind
                                              /\ items[j].at = SrcFn.at}}

\* the name the messages and identities give the function
qualified_name(f) ==
    IF f.kind = "class"
    THEN f.class_name \o (IF f.fkind = "static" THEN "." ELSE "#") \o f.name
    ELSE f.name

is_exported(f) == f.kind \in {"export_fn", "export_var", "export_default"}

\* the module starts with the file-level directive
file_level(directive) ==
    Len(source) = 2 /\ source[1].kind = "lit" /\ source[1].val = directive

\* the body is the single statement  throw new Error("You attempted to execute
\* workflow <name> function directly. To start a workflow, use start(..) ..")
is_guaranteed_throw(body, name) ==
    /\ Len(body.stmts) = 1
    /\ body.stmts[1].kind = "throw"
    /\ body.stmts[1].val = name

\* a function of a supported shape that an inline "use workflow" directive, or
\* the file-level one together with being exported, makes a workflow function
WorkflowFunction ==
    /\ SrcFn.is_async
    /\ ~(SrcFn.kind = "class" /\ SrcFn.fkind = "instance")
    /\ \/ starts_with_directive(SrcFn, "use workflow")
       \/ file_level("use workflow") /\ is_exported(SrcFn)

FileLevelOnlyNamedExport ==
    /\ SrcFn.kind \in {"export_fn", "export_var"}
    /\ file_level("use workflow")
    /\ ~starts_with_directive(SrcFn, "use workflow")

\* no statement of the body is the literal
no_literal(f, directive) ==
    \A k \in 1..Len(f.body.stmts) :
        ~(f.body.stmts[k].kind = "lit" /\ f.body.stmts[k].val = directive)

Directives == {"use step", "use workflow"}

\* the kinds of statement the pass writes for a classified function
OutputKinds ==
    {"registerStepFunction", "registerSerializationClass", "step_proxy_assignment",
     "workflowId", "workflowRegistration", "metadata"}

\* nothing in the output comes from a classification: no registration,
\* identity or manifest statement, no step proxy in the place of the function
\* or of its body, no name recorded as a step or workflow function
no_classification_output ==
    /\ \A i \in 1..Len(items) : items[i].kind \notin OutputKinds
    /\ \A d \in out_decls :
          /\ d.fkind = SrcFn.fkind
          /\ \A k \in 1..Len(d.body.stmts) :
                d.body.stmts[k].kind \notin {"return_proxy", "proxy_expr"}
    /\ step_function_names = {}
    /\ workflow_function_names = {}

\* C5: in every mode a function that carries a step or workflow directive but
\* is not async appears in no registration, hoisting, proxy or identity
\* output, and a NonAsyncFunction diagnostic is emitted for it.
C5_NonAsyncExcludedAndReported ==
    (pc = "done" /\ ~SrcFn.is_async
       /\ \E d \in Directives : starts_with_directive(SrcFn, d)) =>
        /\ no_classification_output
        /\ \E r \in diagnostics : r.kind = "NonAsyncFunction" /\ r.span = fn_span(SrcFn)

\* the module carries no file-level directive
no_file_directive == Len(source) = 1

\* C6: a function whose body carries a string literal statement at edit
\* distance 1 from a directive ("use steps", here in directive position: the
\* first statement) never satisfies should_transform_function or
\* should_transform_workflow_function, and a MisspelledDirective diagnostic
\* naming the closest directive ("use step") is emitted for it, whatever the
\* shape of the function.
C6_MisspelledNeverClassified ==
    (pc = "done" /\ no_file_directive /\ starts_with_directive(SrcFn, "use steps")) =>
        /\ ~should_transform_function(SrcFn, is_exported(SrcFn)).res
        /\ ~should_transform_workflow_function(SrcFn, is_exported(SrcFn)).res
        /\ MisspelledDirective(SrcFn.body.stmts[1].span, "use steps", "use step")
               \in diagnostics

\* the statement is one of the two recognized directives
is_directive(stmt) == stmt.kind = "lit" /\ stmt.val \in Directives

\* a recognized directive stands in the body, and not as its first statement
directive_not_first(f) ==
    /\ Len(f.body.stmts) > 1
    /\ ~is_directive(f.body.stmts[1])
    /\ \E k \in 2..Len(f.body.stmts) : is_directive(f.body.stmts[k])

StepOrWorkflowFunction ==
    /\ SrcFn.is_async
    /\ \/ starts_with_directive(SrcFn, "use step")
       \/ /\ starts_with_directive(SrcFn, "use workflow")
          /\ ~(SrcFn.kind = "class" /\ SrcFn.fkind = "instance")

\* C8: every occurrence of this, super or the identifier arguments inside the
\* body of a step function or a workflow function produces a
\* ForbiddenExpression diagnostic, in every mode and wherever the function is
\* declared.
C8_ForbiddenAlwaysReported ==
    (pc = "done" /\ StepOrWorkflowFunction) =>
        \A k \in 1..Len(SrcFn.body.stmts) :
            SrcFn.body.stmts[k].kind = "expr" =>
                \E r \in diagnostics :
                    /\ r.kind = "ForbiddenExpression"
                    /\ r.span = SrcFn.body.stmts[k].span
                    /\ r.detail = SrcFn.body.stmts[k].val

\* C9 as stated: every diagnostic the transform emits is of one of the five
\* kinds NonAsyncFunction, MisplacedDirective, MisspelledDirective,
\* ForbiddenExpression, InvalidExport.
C9_OnlyFiveKinds ==
    \A r \in diagnostics : r.kind \in WorkflowErrorKind

\* the body carries "use workflow" where the directive check of a method finds it
carries_workflow_directive(f) ==
    IF f.body.wrapped THEN starts_with_directive(f, "use workflow")
    ELSE ~no_literal(f, "use workflow")

\* C9 amended: every diagnostic the transform emits is of one of the five
\* kinds, or is the hard error "Instance methods cannot be marked with "use
\* workflow"..." reported on an instance method of a class that carries the
\* "use workflow" directive; no other diagnostic is emitted.
C9_FiveKindsOrInstanceWorkflow ==
    \A r \in diagnostics :
        \/ r.kind \in WorkflowErrorKind
        \/ /\ r.kind = "struct_span_err"
           /\ r.span = <<SrcFn.at>>
           /\ SrcFn.kind = "class"
           /\ SrcFn.fkind = "instance"
           /\ carries_workflow_directive(SrcFn)

\* C9 witness: class Bar { async foo() { "use workflow"; this } }: the hard
\* error is the only report
C9_Witness ==
    /\ pc = "done"
    /\ SrcFn.kind = "class"
    /\ SrcFn.fkind = "instance"
    /\ SrcFn.is_async
    /\ starts_with_directive(SrcFn, "use workflow")
    /\ Len(SrcFn.body.stmts) = 2
    /\ SrcFn.body.stmts[2].val = "this"
    /\ Cardinality(diagnostics) = 1
    /\ \E r \in diagnostics : r.kind = "struct_span_err" /\ r.span = <<SrcFn.at>>

\* C11: for an exported top-level async function foo whose body starts with
\* "use step", Client mode leaves foo's declaration as it was written, with
\* the directive statement removed from the body and nothing else changed.
C11_ClientModeKeepsBody ==
    (pc = "done" /\ mode = "Client" /\ ExportedAsyncStep) =>
        decls_of(items, SrcFn.name) = {[SrcFn EXCEPT !.body.stmts = Tail(@)]}

\* C11 witness: export async function foo() { "use step"; this } through Client
\* mode: the body is left with the second statement
C11_Witness ==
    /\ pc = "done"
    /\ mode = "Client"
    /\ ExportedAsyncStep
    /\ Len(SrcFn.body.stmts) = 2
    /\ SrcFn.body.stmts[2].val = "this"
    /\ \E d \in decls_of(items, "foo") : d.body.stmts = <<SrcFn.body.stmts[2]>>

\* the statements of that kind in the output
items_of_kind(kind) == {items[i] : i \in {j \in 1..Len(items) : items[j].kind = kind}}

\* a class with one async instance method whose body starts with "use step"
ClassWithStepInstanceMethod ==
    /\ SrcFn.kind = "class"
    /\ SrcFn.fkind = "instance"
    /\ SrcFn.is_async
    /\ starts_with_directive(SrcFn, "use step")

\* registerStepFunction("step//<modulePath>//Bar#foo", Bar.prototype.foo)
instance_step_registration ==
    [kind |-> "registerStepFunction",
     id |-> step_identity(SrcFn.class_name \o "#" \o SrcFn.name),
     name |-> SrcFn.class_name \o ".prototype." \o SrcFn.name]

\* registerSerializationClass("class//<modulePath>//Bar", Bar)
class_serialization_registration ==
    [kind |-> "registerSerializationClass",
     id |-> "class//" \o self_get_module_path(Self) \o "//" \o SrcFn.class_name,
     name |-> SrcFn.class_name]

\* C12 as stated: in Step mode a class with one async instance method marked
\* "use step" yields the step registration keyed by the identity of Bar#foo,
\* and the class serialization registration exactly when the class defines
\* both the serialize and the deserialize hook.
C12_ClassRegistrationIffHooks ==
    (pc = "done" /\ mode = "Step" /\ ClassWithStepInstanceMethod) =>
        /\ instance_step_registration \in items_of_kind("registerStepFunction")
        /\ class_serialization_registration \in items_of_kind("registerSerializationClass")
              <=> SrcFn.hooks = SerializationSymbols

\* C12 amended: in Step mode a class with one async instance method marked
\* "use step" yields the step registration keyed by the identity of Bar#foo
\* and the class serialization registration, whichever of the hooks the class
\* defines: removing a hook drops no registration.  (A method whose body also
\* holds a "use workflow" statement is refused as an instance workflow method
\* and gets no step registration.)
C12_ClassRegistrationWhateverHooks ==
    (pc = "done" /\ mode = "Step" /\ ClassWithStepInstanceMethod) =>
        IF ~carries_workflow_directive(SrcFn)
        THEN /\ items_of_kind("registerStepFunction") = {instance_step_registration}
             /\ items_of_kind("registerSerializationClass")
                    = {class_serialization_registration}
        ELSE /\ items_of_kind("registerStepFunction") = {}
             /\ \E r \in diagnostics : r.kind = "struct_span_err"

\* C12 witness: class Bar { static [serialize]() {..}  async foo() { "use step" } }
\* with no deserialize hook: both registrations are in the Step-mode output
C12_Witness ==
    /\ pc = "done"
    /\ mode = "Step"
    /\ ClassWithStepInstanceMethod
    /\ SrcFn.hooks = {"workflow-serialize"}
    /\ module_specifier = None
    /\ \E i \in 1..Len(items) :
          items[i] = [kind |-> "registerStepFunction", id |-> "step//./a/a//Bar#foo",
                      name |-> "Bar.prototype.foo"]
    /\ \E i \in 1..Len(items) :
          items[i] = [kind |-> "registerSerializationClass", id |-> "class//./a/a//Bar",
                      name |-> "Bar"]

\* the classes flagged as needing serialization registration: the set the pass
\* collects, and the copy that outlives the draining of it
flagged_classes == classes_needing_serialization \cup classes_for_manifest

\* the class of the module owns a method the pass took as a step function
owns_step_method ==
    SrcFn.kind = "class" /\ qualified_name(SrcFn) \in step_function_names

\* the class of the module owns a method the pass took as a workflow function
owns_workflow_method ==
    SrcFn.kind = "class" /\ qualified_name(SrcFn) \in workflow_function_names

appears(its, directive) ==
    \E i \in 1..Len(its) : is_str_lit(its[i]) /\ its[i].val = directive

\* C10: after the module scan the file-level step flag and the file-level
\* workflow flag are never both true, and a module in which both "use step"
\* and "use workflow" stand as statements gets a diagnostic (a misplaced
\* directive at module level).
C10_AtMostOneFileDirective ==
    pc = "visit" =>
        /\ ~(has_file_step_directive /\ has_file_workflow_directive)
        /\ (appears(source, "use step") /\ appears(source, "use workflow"))
              => \E d \in diagnostics : d.kind = "MisplacedDirective" /\ d.detail = "Module"

\* C10 witness: "use step" then "use workflow": the first is honoured, the
\* second reported
C10_Witness ==
    /\ pc = "visit"
    /\ Len(source) = 2
    /\ source[1].val = "use step"
    /\ source[2].val = "use workflow"
    /\ has_file_step_directive
    /\ ~has_file_workflow_directive
    /\ MisplacedDirective(<<2>>, "use workflow", "Module") \in diagnostics

(***************************************************************************)
(* Identity claims                                                         *)
(***************************************************************************)
NoSeparator(tr) == \A i \in 1..3 : ~contains(tr[i], "//")

\* a triple whose parts cannot run into the separators around them and whose
\* name does not take the __builtin route of create_id
Unambiguous(tr) ==
    /\ NoSeparator(tr)
    /\ ~ends_with(tr[1], "/")
    /\ ~ends_with(tr[2], "/")
    /\ ~starts_with(tr[3], "__builtin")

\* C3 as stated: over the triples none of whose components contains "//", two
\* distinct triples never get the same identity string.
C3_InjectiveWithoutSeparator ==
    pc = "id_done" =>
        \A t \in IdInputs :
            (identity(t) = id_out /\ NoSeparator(Triple(id_in)) /\ NoSeparator(Triple(t)))
                => Triple(t) = Triple(id_in)

\* C3 amended: over the triples none of whose components contains "//", whose
\* kind and module path do not end with "/" and whose name does not start with
\* "__builtin", the identity string is kind//modulePath//name and two distinct
\* triples never get the same identity string.
C3_InjectiveUnambiguous ==
    (pc = "id_done" /\ Unambiguous(Triple(id_in))) =>
        /\ id_out = Triple(id_in)[1] \o "//" \o Triple(id_in)[2] \o "//" \o Triple(id_in)[3]
        /\ \A t \in IdInputs :
               (identity(t) = id_out /\ Unambiguous(Triple(t))) => Triple(t) = Triple(id_in)

\* C3 witness: an identity computed for a name that starts with "/", next to
\* the separator
C3_Witness ==
    /\ pc = "id_done"
    /\ Unambiguous(Triple(id_in))
    /\ Triple(id_in) = <<"step", "a", "/a">>
    /\ id_out = "step//a///a"

(***************************************************************************)
(* Object-literal step properties (lib.rs 1468-1812, 3779-3868).           *)
(* A name is the sequence of its characters, so that str::replace acts on  *)
(* what the name is made of; Str gives the name as one string.             *)
(* A property is [key, value]; a value is a function (kind "arrow", "fn"   *)
(* or "method", with is_async, body, at), an object (kind "object", with   *)
(* props), a call (kind "call", with args) or an identifier / initializer  *)
(* the pass has put in a function's place.                                 *)
(***************************************************************************)
RECURSIVE Str(_)
Str(cs) == IF cs = <<>> THEN "" ELSE cs[1] \o Str(Tail(cs))

\* str::replace(from, to) for a one-character pattern
replace(cs, from, to) == [i \in 1..Len(cs) |-> IF cs[i] = from THEN to ELSE cs[i]]

\* Option<String> of a name
NoName == [some |-> FALSE, val |-> <<>>]

\* format!("{}/{}", parent_var_name, prop_key)
compound_path(parent_var_name, prop_key) == parent_var_name \o <<"/">> \o prop_key

\* lib.rs: create_object_property_id
create_object_property_id(self, parent_var_name, prop_name, is_workflow, workflow_name) ==
    LET fn_name == IF workflow_name.some
                   THEN workflow_name.val \o <<"/">> \o parent_var_name \o <<"/">> \o prop_name
                   ELSE parent_var_name \o <<"/">> \o prop_name
        prefix == IF is_workflow THEN "workflow" ELSE "step"
    IN  format_name(prefix, self_get_module_path(self), Str(fn_name))

\* lib.rs: hoist_var_name, as apply_object_property_transformation, the method
\* branch and visit_mut_program compute it (workflow_name empty for None)
hoist_var_name(workflow_name, parent_var_name, prop_key) ==
    LET safe_parent_name == replace(parent_var_name, "/", "$")
    IN  IF workflow_name # <<>>
        THEN workflow_name \o <<"$">> \o safe_parent_name \o <<"$">> \o prop_key
        ELSE safe_parent_name \o <<"$">> \o prop_key

\* Expr::Ident(hoist_var_name)
hoist_ident(name) == [kind |-> "ident", sym |-> Str(name)]

\* the entry pushed on object_property_workflow_conversions
conversion(parent_var_name, prop_key, step_id) ==
    [parent_var |-> Str(parent_var_name), prop_name |-> Str(prop_key), step_id |-> step_id]

\* the value the property holds after the transformation, and the conversion
\* recorded for it: lib.rs: apply_object_property_transformation, and the
\* match on the mode of the method branch
apply_object_property_transformation(st, value, parent_var_name, prop_key) ==
    With(create_object_property_id(Self, parent_var_name, prop_key, FALSE,
                                   st.current_workflow_function_name), LAMBDA step_id :
        CASE mode = "Step" ->
                [st |-> [st EXCEPT !.object_property_workflow_conversions =
                                       Append(@, conversion(parent_var_name, prop_key, step_id))],
                 value |-> hoist_ident(hoist_var_name(st.current_workflow_function_name.val,
                                                      parent_var_name, prop_key))]
          [] mode = "Workflow" ->
                [st |-> [st EXCEPT !.object_property_workflow_conversions =
                                       Append(@, conversion(parent_var_name, prop_key, step_id))],
                 value |-> create_step_initializer(step_id)]
          [] OTHER -> [st |-> st, value |-> value])

\* the entry pushed on object_property_step_functions
step_function_entry(st, parent_var_name, prop_key, fn_expr, was_arrow) ==
    [parent_var |-> parent_var_name, prop_name |-> prop_key, fn_expr |-> fn_expr,
     span |-> <<fn_expr.at>>, workflow_name |-> st.current_workflow_function_name.val,
     was_arrow |-> was_arrow]

\* the directive test of a property's value: has_use_step_directive_arrow for
\* an arrow, has_use_step_directive for a function expression or a method
value_has_use_step(value) ==
    CASE value.kind = "arrow" -> has_use_step_directive_arrow(value.body)
      [] value.kind \in {"fn", "method"} -> has_use_step_directive(value.body)
      [] OTHER -> [res |-> FALSE, diags |-> {}]

\* a property whose value carries the directive: the async test, the removal
\* of the directive, the push and the transformation
transform_step_property(st, prop, parent_var_name) ==
    IF ~prop.value.is_async
    THEN [st |-> AddDiags(st, {NonAsyncFunction(<<prop.value.at>>, "use step")}), prop |-> prop]
    ELSE With([prop.value EXCEPT !.kind = "fn", !.body = remove_use_step_directive(@)],
         LAMBDA fn_expr :
         With(apply_object_property_transformation(
                  [st EXCEPT !.object_property_step_functions =
                       Append(@, step_function_entry(st, parent_var_name, prop.key, fn_expr,
                                                     prop.value.kind = "arrow"))],
                  [prop.value EXCEPT !.body = remove_use_step_directive(@)],
                  parent_var_name, prop.key),
         LAMBDA r : [st |-> r.st, prop |-> [prop EXCEPT !.value = r.value]]))

\* lib.rs: process_object_properties_for_step_functions: the loop over the
\* properties, the loop over a call's arguments, and the body of the loop
RECURSIVE process_object_properties_loop(_, _, _, _)
RECURSIVE process_call_args_loop(_, _, _, _)
RECURSIVE process_prop(_, _, _)
process_object_properties_loop(st, props, parent_var_name, i) ==
    IF i > Len(props) THEN [st |-> st, props |-> props]
    ELSE With(process_prop(st, props[i], parent_var_name), LAMBDA r :
             process_object_properties_loop(r.st, [props EXCEPT ![i] = r.prop],
                                            parent_var_name, i + 1))

process_call_args_loop(st, args, path, i) ==
    IF i > Len(args) THEN [st |-> st, args |-> args]
    ELSE IF args[i].kind = "object"
    THEN With(process_object_properties_loop(st, args[i].props, path, 1), LAMBDA r :
             process_call_args_loop(r.st, [args EXCEPT ![i].props = r.props], path, i + 1))
    ELSE process_call_args_loop(st, args, path, i + 1)

process_prop(st, prop, parent_var_name) ==
    With(value_has_use_step(prop.value), LAMBDA hs :
        IF hs.res
        THEN transform_step_property(AddDiags(st, hs.diags), prop, parent_var_name)
        ELSE CASE prop.value.kind = "object" ->
                    With(process_object_properties_loop(AddDiags(st, hs.diags), prop.value.props,
                             compound_path(parent_var_name, prop.key), 1),
                         LAMBDA r : [st |-> r.st, prop |-> [prop EXCEPT !.value.props = r.props]])
               [] prop.value.kind = "call" ->
                    With(process_call_args_loop(AddDiags(st, hs.diags), prop.value.args,
                             compound_path(parent_var_name, prop.key), 1),
                         LAMBDA r : [st |-> r.st, prop |-> [prop EXCEPT !.value.args = r.args]])
               [] OTHER -> [st |-> AddDiags(st, hs.diags), prop |-> prop])

process_object_properties_for_step_functions(st, props, parent_var_name) ==
    process_object_properties_loop(st, props, parent_var_name, 1)

\* lib.rs: visit_mut_var_decl, the declarator whose initializer is an object
\* literal or a call (6456-6469)
visit_mut_var_decl_object(st, decl) ==
    CASE decl.init.kind = "object" ->
            With(process_object_properties_for_step_functions(st, decl.init.props, decl.name),
                 LAMBDA r : [st |-> r.st, decl |-> [decl EXCEPT !.init.props = r.props]])
      [] decl.init.kind = "call" ->
            With(process_call_args_loop(st, decl.init.args, decl.name, 1),
                 LAMBDA r : [st |-> r.st, decl |-> [decl EXCEPT !.init.args = r.args]])
      [] OTHER -> [st |-> st, decl |-> decl]

\* lib.rs: visit_mut_program, hoisting_info of one entry
hoisting_info(self, e) ==
    [hoist_var_name |-> Str(hoist_var_name(e.workflow_name, e.parent_var, e.prop_name)),
     fn_expr |-> e.fn_expr,
     step_id |-> create_object_property_id(self, e.parent_var, e.prop_name, FALSE,
                     IF e.workflow_name = <<>> THEN NoName
                     ELSE [some |-> TRUE, val |-> e.workflow_name]),
     parent_var |-> e.parent_var]

\* the hoisted declaration and the registration call of one entry
hoisted_decl(info) ==
    [kind |-> "hoisted_var", name |-> info.hoist_var_name, init |-> info.fn_expr]

object_registration_call(info) ==
    [kind |-> "registerStepFunction", id |-> info.step_id, name |-> info.hoist_var_name]

\* lib.rs: generate_metadata_comment, the steps entries of the object properties
object_metadata(conversions) ==
    [kind |-> "metadata",
     steps |-> {[name |-> conversions[i].parent_var \o "/" \o conversions[i].prop_name,
                 stepId |-> conversions[i].step_id] : i \in 1..Len(conversions)},
     workflows |-> {}, classes |-> {}]

(***************************************************************************)
(* SpecObj: the pass over a module of variable declarations initialised    *)
(* with object literals, each at module level or in the body of the        *)
(* exported workflow function w                                            *)
(***************************************************************************)
VarNames == {<<"a">>, <<"a", "$", "b">>, <<"w">>}

\* the function values of a property: what kind of function, async or not,
\* with the directive or without
StepBody(at) == [wrapped |-> FALSE, stmts |-> Spanned(<<[kind |-> "lit", val |-> "use step"]>>, at)]

PlainBody(at) == [wrapped |-> FALSE, stmts |-> Spanned(<<[kind |-> "other", val |-> ""]>>, at)]

FnValues(at) ==
    {[kind |-> "arrow", is_async |-> TRUE, body |-> StepBody(at), at |-> at],
     [kind |-> "method", is_async |-> TRUE, body |-> StepBody(at), at |-> at],
     [kind |-> "fn", is_async |-> FALSE, body |-> StepBody(at), at |-> at],
     [kind |-> "arrow", is_async |-> TRUE, body |-> PlainBody(at), at |-> at]}

StepValues(at) == {v \in FnValues(at) : v.is_async /\ v.body = StepBody(at)}

\* { x: f } and { x: f, y: g }
FlatObjects(at) ==
    {[kind |-> "object", props |-> <<[key |-> <<"x">>, value |-> v]>>] : v \in FnValues(at)}
    \cup {[kind |-> "object",
           props |-> <<[key |-> <<"x">>, value |-> v], [key |-> <<"y">>, value |-> u]>>] :
              v \in FnValues(at), u \in {[kind |-> "arrow", is_async |-> TRUE,
                                           body |-> StepBody(at), at |-> at]}}

OneStepObjects(at) ==
    {[kind |-> "object", props |-> <<[key |-> <<"x">>, value |-> v]>>] : v \in StepValues(at)}

\* { a: { x: f } } and { b: tool({ x: f }) }
NestedObjects(at) ==
    {[kind |-> "object", props |-> <<[key |-> k, value |-> o]>>] :
        k \in {<<"a">>, <<"b">>},
        o \in {[kind |-> "object", props |-> <<[key |-> <<"x">>, value |-> v]>>] :
                  v \in FnValues(at)}
              \cup {[kind |-> "call", args |-> <<p>>] : p \in OneStepObjects(at)}}

Initializers(at) ==
    FlatObjects(at) \cup NestedObjects(at)
    \cup {[kind |-> "call", args |-> <<p>>] : p \in OneStepObjects(at)}

\* a declaration: the enclosing exported workflow function if any, the name
\* declared, the initializer
ObjectDecls(at) ==
    {[kind |-> "var", workflow |-> wf, name |-> n, init |-> o] :
        wf \in {NoName, [some |-> TRUE, val |-> <<"w">>]}, n \in VarNames,
        o \in Initializers(at)}

\* no scope declares a name twice
ObjectModules ==
    {<<d>> : d \in ObjectDecls(1)}
    \cup {m \in {<<d, e>> : d \in ObjectDecls(1), e \in ObjectDecls(2)} :
              m[1].workflow # m[2].workflow \/ m[1].name # m[2].name}

InitObj ==
    /\ mode \in Modes
    /\ filename = "a/a.ts"
    /\ module_specifier = None
    /\ source \in ObjectModules
    /\ items = <<>>
    /\ NewTransform
    /\ NewCollector
    /\ id_in = NoIdInput
    /\ id_out = ""
    /\ pc = "obj_visit"

\* the fields the object-literal handlers thread, in the context of a declaration
ObjSt(decl) ==
    [diagnostics |-> diagnostics,
     object_property_step_functions |-> object_property_step_functions,
     object_property_workflow_conversions |-> object_property_workflow_conversions,
     current_workflow_function_name |-> decl.workflow]

\* lib.rs: visit_mut_var_decl on the next declaration, reached through
\* visit_mut_export_decl (which sets and restores the workflow name) when the
\* declaration is in the body of w
VisitObjectDecl ==
    /\ pc = "obj_visit"
    /\ \E r \in {visit_mut_var_decl_object(ObjSt(source[Len(items) + 1]),
                                           source[Len(items) + 1])} :
          /\ items' = Append(items, r.decl)
          /\ diagnostics' = r.st.diagnostics
          /\ object_property_step_functions' = r.st.object_property_step_functions
          /\ object_property_workflow_conversions' = r.st.object_property_workflow_conversions
          /\ UNCHANGED <<hvars, kvars>>
    /\ pc' = IF Len(items) + 1 = Len(source) THEN "obj_program" ELSE "obj_visit"
    /\ UNCHANGED <<nvars, mode, filename, module_specifier, source, has_file_step_directive,
                   has_file_workflow_directive, tvars, id_in, id_out>>

\* lib.rs: visit_mut_program after the walk: the import, the hoisted
\* declarations at the first position after the imports, the registration
\* calls at the end, then the manifest before the first non-import
HoistObjectProperties ==
    /\ pc = "obj_program"
    /\ LET infos == [i \in 1..Len(object_property_step_functions) |->
                        hoisting_info(Self, object_property_step_functions[i])]
           imports == IF mode = "Step" /\ object_property_step_functions # <<>>
                      THEN << [kind |-> "import", val |-> "registerStepFunction"] >>
                      ELSE <<>>
           hoisted == IF mode = "Step"
                      THEN [i \in 1..Len(infos) |-> hoisted_decl(infos[i])] ELSE <<>>
           calls == IF mode = "Step"
                    THEN [i \in 1..Len(infos) |-> object_registration_call(infos[i])] ELSE <<>>
           manifest == IF object_property_workflow_conversions = <<>> THEN <<>>
                       ELSE <<object_metadata(object_property_workflow_conversions)>>
       IN  items' = imports \o manifest \o hoisted \o items \o calls
    /\ object_property_step_functions' =
           IF mode = "Step" THEN <<>> ELSE object_property_step_functions
    /\ pc' = "obj_done"
    /\ UNCHANGED <<nvars, mode, filename, module_specifier, source, has_file_step_directive,
                   has_file_workflow_directive, diagnostics, tvars,
                   object_property_workflow_conversions, hvars, kvars, id_in, id_out>>

NextObj == VisitObjectDecl \/ HoistObjectProperties

SpecObj == InitObj /\ [][NextObj]_vars

(***************************************************************************)
(* Object-literal claims                                                   *)
(***************************************************************************)
\* the hoisted declarations of the output, in the order of the conversions
hoisted_vars == SelectSeq(items, LAMBDA it : it.kind = "hoisted_var")

\* C14: two object-literal step properties with the same property name under
\* different parent variable paths get distinct hoisted identifiers and
\* distinct identity strings
C14_DistinctHoistedNamesAndIds ==
    (pc = "obj_done" /\ mode = "Step") =>
        \A i, j \in 1..Len(object_property_workflow_conversions) :
            LET c == object_property_workflow_conversions
            IN  (i # j /\ c[i].prop_name = c[j].prop_name /\ c[i].parent_var # c[j].parent_var)
                    => /\ hoisted_vars[i].name # hoisted_vars[j].name
                       /\ c[i].step_id # c[j].step_id

(***************************************************************************)
(* SpecScript: the pass over a Program::Script (lib.rs 3535-3540,          *)
(* 4398-4486): the statements go through visit_mut_stmt (process_stmt),    *)
(* never through visit_mut_module_items, and visit_mut_program turns the   *)
(* script into a module when it has found a step or a workflow function    *)
(***************************************************************************)
\* the statements of a script: a function declaration, a variable bound to
\* a function, a class
ScriptStmts(at) == {f \in FnItems(at) : f.kind \in {"fn", "var", "class"}}

Scripts == {<<f>> : f \in ScriptStmts(1)}

InitScript ==
    /\ mode \in Modes
    /\ filename = "a/a.ts"
    /\ module_specifier = None
    /\ source \in Scripts
    /\ items = source
    /\ NewTransform
    /\ NewCollector
    /\ id_in = NoIdInput
    /\ id_out = ""
    /\ pc = "script"

\* the StepTransform fields after a handler has run
TakeSt(st) ==
    /\ diagnostics' = st.diagnostics
    /\ step_function_names' = st.step_function_names
    /\ workflow_function_names' = st.workflow_function_names
    /\ registered_functions' = st.registered_functions
    /\ registration_calls' = st.registration_calls
    /\ step_exports_to_convert' = st.step_exports_to_convert
    /\ workflow_functions_needing_id' = st.workflow_functions_needing_id
    /\ in_step_function' = st.in_step_function
    /\ in_workflow_function' = st.in_workflow_function
    /\ in_module_level' = st.in_module_level
    /\ current_workflow_function_name' = st.current_workflow_function_name
    /\ current_parent_function_name' = st.current_parent_function_name
    /\ current_class_name' = st.current_class_name
    /\ current_class_binding_name' = st.current_class_binding_name
    /\ classes_needing_serialization' = st.classes_needing_serialization
    /\ classes_for_manifest' = st.classes_for_manifest
    /\ static_method_step_registrations' = st.static_method_step_registrations
    /\ instance_method_step_registrations' = st.instance_method_step_registrations
    /\ static_step_methods_to_strip' = st.static_step_methods_to_strip
    /\ instance_step_methods_to_strip' = st.instance_step_methods_to_strip
    /\ static_method_workflow_registrations' = st.static_method_workflow_registrations
    /\ workflow_export_to_const_name' = st.workflow_export_to_const_name

\* lib.rs: visit_mut_stmt on the statements of the script, in order
RECURSIVE visit_script_loop(_, _, _)
visit_script_loop(st, stmts, i) ==
    IF i > Len(stmts) THEN [st |-> st, items |-> stmts]
    ELSE With(visit_item(st, stmts[i]), LAMBDA r :
             visit_script_loop(r.st, [stmts EXCEPT ![i] = r.f], i + 1))

\* lib.rs: visit_mut_program: program.visit_mut_children_with(self), then
\* classes_for_manifest = classes_needing_serialization
VisitScript ==
    /\ pc = "script"
    /\ \E r \in {visit_script_loop(CurrentSt, items, 1)} :
          /\ items' = r.items
          /\ TakeSt([r.st EXCEPT !.classes_for_manifest = r.st.classes_needing_serialization])
    /\ pc' = "script_program"
    /\ UNCHANGED <<nvars, ovars, mode, filename, module_specifier, source, has_file_step_directive,
                   has_file_workflow_directive, items_to_insert, id_in, id_out>>

\* lib.rs: visit_mut_program, Program::Script: the module the script becomes
script_module_items(st, its) ==
    LET needs_class_serialization == st.classes_needing_serialization # {}
        class_import ==
            IF needs_class_serialization
            THEN << [kind |-> "import", val |-> "registerSerializationClass"] >>
            ELSE <<>>
        imports ==
            CASE mode = "Step" ->
                     (IF st.registration_calls # <<>>
                      THEN << [kind |-> "import", val |-> "registerStepFunction"] >>
                      ELSE <<>>) \o class_import
              [] mode = "Client" -> class_import
              [] OTHER -> <<>>
        sorted == sorted_classes(st.classes_needing_serialization)
        pushed ==
            CASE mode = "Step" -> st.registration_calls
              [] mode = "Client" ->
                     [i \in 1..Len(sorted) |-> create_class_serialization_registration(sorted[i])]
              [] OTHER -> <<>>
    IN  insert_manifest(st, imports \o its \o pushed)

\* the script is converted when a step or a workflow function was found
script_converts(st) == st.step_function_names # {} \/ st.workflow_function_names # {}

FinishScript ==
    /\ pc = "script_program"
    /\ items' = IF script_converts(CurrentSt) THEN script_module_items(CurrentSt, items)
                ELSE items
    /\ registration_calls' =
           IF script_converts(CurrentSt) /\ mode = "Step" THEN <<>> ELSE registration_calls
    /\ classes_needing_serialization' =
           IF script_converts(CurrentSt) /\ mode = "Client" THEN {}
           ELSE classes_needing_serialization
    /\ pc' = "script_done"
    /\ UNCHANGED <<nvars, ovars, mode, filename, module_specifier, source, has_file_step_directive,
                   has_file_workflow_directive, diagnostics, step_function_names,
                   workflow_function_names, registered_functions,
                   step_exports_to_convert, workflow_functions_needing_id,
                   in_step_function, in_workflow_function,
                   in_module_level, current_workflow_function_name,
                   current_parent_function_name, items_to_insert, current_class_name,
                   current_class_binding_name,
                   classes_for_manifest, static_method_step_registrations,
                   instance_method_step_registrations, static_step_methods_to_strip,
                   instance_step_methods_to_strip, static_method_workflow_registrations,
                   workflow_export_to_const_name, id_in, id_out>>

NextScript == VisitScript \/ FinishScript

SpecScript == InitScript /\ [][NextScript]_vars

(***************************************************************************)
(* Manifest claims                                                         *)
(***************************************************************************)
\* the positions of the output that hold a metadata annotation
manifest_positions == {i \in 1..Len(items) : items[i].kind = "metadata"}

\* the run found a step function, a workflow function or a flagged class
found_any ==
    \/ step_function_names # {}
    \/ workflow_function_names # {}
    \/ classes_for_manifest # {}

\* C15: when the run found a step function, a workflow function or a class
\* flagged for serialization, the output holds exactly one metadata annotation,
\* immediately after the leading block of imports; when it found none, the
\* output holds no annotation (here: for a script input)
C15_OneManifestAfterImports ==
    pc = "script_done" =>
        IF found_any
        THEN \E p \in manifest_positions :
                /\ manifest_positions = {p}
                /\ \A i \in 1..(p - 1) : items[i].kind = "import"
                /\ p < Len(items) => items[p + 1].kind # "import"
        ELSE manifest_positions = {}

(***************************************************************************)
(* SpecName: the head of visit_mut_module_items and the walk, over a       *)
(* module of two declarations followed by an anonymous default export      *)
(***************************************************************************)
DeclNames == {"__default", "__default$1", "x"}

Ident(n) == [kind |-> "ident", sym |-> n]

\* x, [x], { k: x }, { x }, { ...x }, x = 1
BindingPats ==
    UNION {{Ident(n),
            [kind |-> "array", elems |-> <<Ident(n)>>],
            [kind |-> "object", props |-> <<[kind |-> "keyvalue", value |-> Ident(n)]>>],
            [kind |-> "object", props |-> <<[kind |-> "assign", key |-> n]>>],
            [kind |-> "object", props |-> <<[kind |-> "rest", arg |-> Ident(n)]>>],
            [kind |-> "assign", left |-> Ident(n)]} : n \in DeclNames}

\* the declarations of a module: a function, a class, a variable declaration
\* (initialised with no function), an import, and a statement (a block, an if,
\* a for) that holds a var declaration
NameDecls(at) ==
    {[kind |-> "fn", fkind |-> "decl", name |-> n, is_async |-> TRUE, body |-> PlainBody(at),
      at |-> at] : n \in DeclNames}
    \cup {[kind |-> "class", class_name |-> n, fkind |-> "instance", name |-> "foo",
           is_async |-> TRUE, body |-> PlainBody(at), at |-> at, hooks |-> {}] :
              n \in DeclNames}
    \cup {[kind |-> "var_decl", pat |-> q, at |-> at] : q \in BindingPats}
    \cup {[kind |-> "export_var_decl", pat |-> Ident(n), at |-> at] : n \in DeclNames}
    \cup {[kind |-> "import", val |-> "", at |-> at,
           specifiers |-> <<[kind |-> k, local |-> n]>>] :
              k \in {"named", "default", "namespace"}, n \in DeclNames}
    \cup {[kind |-> "block", at |-> at,
           stmt |-> [kind |-> "var_decl", pat |-> Ident(n), at |-> at]] : n \in DeclNames}

\* export default [async] function () { ... }
AnonymousDefaults(at) ==
    {[kind |-> "export_default", fkind |-> "decl", name |-> "default", is_async |-> a,
      body |-> [wrapped |-> FALSE, stmts |-> Spanned(<<[kind |-> "lit", val |-> d]>>, at)],
      at |-> at] : a \in BOOLEAN, d \in {"use workflow", "use step"}}

NameModules ==
    {<<d, e, f>> : d \in NameDecls(1), e \in NameDecls(2), f \in AnonymousDefaults(3)}

InitName ==
    /\ mode \in Modes
    /\ filename = "a/a.ts"
    /\ module_specifier = None
    /\ source \in NameModules
    /\ items = source
    /\ NewTransform
    /\ NewCollector
    /\ id_in = NoIdInput
    /\ id_out = ""
    /\ pc = "scan"

NextName == ModuleDirectives \/ VisitItems

SpecName == InitName /\ [][NextName]_vars

(***************************************************************************)
(* Generated-name claims                                                   *)
(***************************************************************************)
\* the names an item declares in the scope of the module: its own binding,
\* and the var bindings of the statements it holds
module_scope_names(item) ==
    IF item.kind = "block" THEN collect_idents_from_pat(item.stmt.pat)
    ELSE collect_declared_of(item)

\* C16: the name synthesized for an anonymous default-export workflow function
\* differs from every identifier declared in the module
C16_GeneratedNameIsFresh ==
    (pc = "insert" /\ source[Len(source)].kind = "export_default"
     /\ source[Len(source)].name = "default" /\ workflow_export_to_const_name.some)
        => \A i \in 1..Len(source) :
               workflow_export_to_const_name.val \notin module_scope_names(source[i])

(***************************************************************************)
(* SpecIds: the run of Spec over modules whose function is named foo or    *)
(* carries a __builtin name, with a body of at most one statement          *)
(***************************************************************************)
IdFnNames == {"foo", "__builtina"}

IdFnItems(at) ==
    {[f EXCEPT !.name = n] :
        f \in {g \in FnItems(at) : ~g.body.wrapped /\ Len(g.body.stmts) <= 1},
        n \in IdFnNames}

IdModules ==
    {<<f>> : f \in IdFnItems(1)}
    \cup {<<[kind |-> "lit", val |-> d, at |-> 1], f>> :
              d \in {"use step", "use workflow"}, f \in IdFnItems(2)}

InitIds ==
    /\ mode \in Modes
    /\ \E src \in MainSources :
          /\ filename = src.filename
          /\ module_specifier = src.module_specifier
    /\ source \in IdModules
    /\ items = source
    /\ NewTransform
    /\ NewCollector
    /\ id_in = NoIdInput
    /\ id_out = ""
    /\ pc = "scan"

SpecIds == InitIds /\ [][Next]_vars

(***************************************************************************)
(* Identity-form claims                                                    *)
(***************************************************************************)
\* the identity strings an item of the output carries
ids_of(item) ==
    CASE item.kind \in {"registerStepFunction", "registerSerializationClass",
                        "step_proxy_assignment", "workflowId", "workflowRegistration"} ->
             {item.id}
      [] item.kind = "metadata" ->
             {r.stepId : r \in item.steps} \cup {r.workflowId : r \in item.workflows}
             \cup {r.classId : r \in item.classes}
      [] "init" \in DOMAIN item -> {item.init.id}
      [] "body" \in DOMAIN item ->
             {item.body.stmts[i].val :
                 i \in {j \in 1..Len(item.body.stmts) :
                           item.body.stmts[j].kind \in {"return_proxy", "proxy_expr"}}}
      [] OTHER -> {}

output_ids == UNION {ids_of(items[i]) : i \in 1..Len(items)}

\* the qualified names of the module's function, class and methods
QualifiedNames ==
    IdFnNames \cup {"Bar", "default"}
    \cup {"Bar." \o n : n \in IdFnNames} \cup {"Bar#" \o n : n \in IdFnNames}

\* "{kind}//{modulePath}//{qualifiedName}"
well_formed(id) ==
    \E k \in {"step", "workflow", "class"}, q \in QualifiedNames :
        id = k \o "//" \o self_get_module_path(Self) \o "//" \o q

\* C17 as stated: every identity string of the output has the form
\* "{kind}//{modulePath}//{qualifiedName}" with kind step, workflow or class
C17_EveryIdWellFormed ==
    pc = "done" => \A id \in output_ids : well_formed(id)

\* C17, amended: every identity string of the output has that form, or is the
\* bare name of the step or workflow function, which starts with "__builtin"
C17_EveryIdWellFormedOrBuiltin ==
    pc = "done" =>
        \A id \in output_ids :
            \/ well_formed(id)
            \/ id = qualified_name(SrcFn) /\ starts_with(id, "__builtin")

\* C17 witness: a Step-mode run that registers foo and lists it in the
\* manifest under one well-formed identity
C17_Witness ==
    /\ pc = "done" /\ mode = "Step" /\ module_specifier = None
    /\ SrcFn.name = "foo"
    /\ output_ids = {"step//./a/a//foo"}
    /\ \E i \in 1..Len(items) : items[i].kind = "registerStepFunction"
    /\ \E i \in 1..Len(items) : items[i].kind = "metadata"

(***************************************************************************)
(* lib.rs: ClosureVariableCollector, the closure analyzer.  A collector is *)
(* the record [closure_vars, local_vars, params]; an absent optional child *)
(* is the empty sequence, a present one a sequence of one.                 *)
(***************************************************************************)
\* lib.rs: is_global_identifier
GlobalIdentifiers ==
    {"console", "process", "global", "globalThis", "window", "document", "Array", "Object",
     "String", "Number", "Boolean", "Date", "Math", "JSON", "Promise", "Symbol", "Error",
     "TypeError", "ReferenceError", "SyntaxError", "RegExp", "Map", "Set", "WeakMap",
     "WeakSet", "parseInt", "parseFloat", "isNaN", "isFinite", "encodeURI", "decodeURI",
     "encodeURIComponent", "decodeURIComponent", "undefined", "null", "true", "false", "NaN",
     "Infinity", "setTimeout", "setInterval", "clearTimeout", "clearInterval", "fetch",
     "Response", "Request", "Headers", "URL", "URLSearchParams", "TextEncoder", "TextDecoder",
     "Buffer", "Uint8Array", "Int8Array", "Uint16Array", "Int16Array", "Uint32Array",
     "Int32Array", "Float32Array", "Float64Array", "BigInt", "BigInt64Array",
     "BigUint64Array", "DataView", "ArrayBuffer", "SharedArrayBuffer", "Atomics", "Proxy",
     "Reflect", "Intl", "WebAssembly", "require", "module", "exports", "__dirname",
     "__filename"}

is_global_identifier(name) == name \in GlobalIdentifiers

\* the bytes of the identifiers of the model, which String's Ord compares
as_bytes(s) ==
    CASE s = "a"    -> <<97>>
      [] s = "b"    -> <<98>>
      [] s = "ab"   -> <<97, 98>>
      [] s = "B"    -> <<66>>
      [] s = "Math" -> <<77, 97, 116, 104>>

\* x <= y for byte strings (lexicographic)
RECURSIVE bytes_le(_, _)
bytes_le(x, y) ==
    IF x = <<>> THEN TRUE
    ELSE IF y = <<>> THEN FALSE
    ELSE IF x[1] # y[1] THEN x[1] < y[1]
    ELSE bytes_le(Tail(x), Tail(y))

str_le(a, b) == bytes_le(as_bytes(a), as_bytes(b))

\* closure_vars.into_iter().collect() followed by vars.sort()
RECURSIVE sort(_)
sort(S) ==
    IF S = {} THEN <<>>
    ELSE LET least == CHOOSE x \in S : \A y \in S : str_le(x, y)
         IN  <<least>> \o sort(S \ {least})

\* lib.rs: collect_param_names: the names a parameter pattern binds
RECURSIVE collect_param_names(_)
collect_param_names(pat) ==
    CASE pat.kind = "ident" -> {pat.sym}
      [] pat.kind = "array" ->
             UNION {collect_param_names(pat.elems[i]) : i \in 1..Len(pat.elems)}
      [] pat.kind = "object" ->
             UNION {CASE pat.props[i].kind = "keyvalue" ->
                             collect_param_names(pat.props[i].value)
                      [] pat.props[i].kind = "assign" -> {pat.props[i].key}
                      [] pat.props[i].kind = "rest" -> collect_param_names(pat.props[i].arg) :
                    i \in 1..Len(pat.props)}
      [] pat.kind = "rest" -> collect_param_names(pat.arg)
      [] pat.kind = "assign" -> collect_param_names(pat.left)
      [] OTHER -> {}

\* lib.rs: collect_declared_names: the names a declarator pattern binds
RECURSIVE collect_declared_names(_)
collect_declared_names(pat) ==
    CASE pat.kind = "ident" -> {pat.sym}
      [] pat.kind = "array" ->
             UNION {collect_declared_names(pat.elems[i]) : i \in 1..Len(pat.elems)}
      [] pat.kind = "object" ->
             UNION {CASE pat.props[i].kind = "keyvalue" ->
                             collect_declared_names(pat.props[i].value)
                      [] pat.props[i].kind = "assign" -> {pat.props[i].key}
                      [] pat.props[i].kind = "rest" ->
                             collect_declared_names(pat.props[i].arg) :
                    i \in 1..Len(pat.props)}
      [] pat.kind = "rest" -> collect_declared_names(pat.arg)
      [] pat.kind = "assign" -> collect_declared_names(pat.left)
      [] OTHER -> {}

\* lib.rs: collect_from_ident_binding, and the Expr::Ident arm of collect_from_expr
collect_from_ident_binding(c, name) ==
    IF name \notin c.params /\ name \notin c.local_vars /\ ~is_global_identifier(name)
    THEN [c EXCEPT !.closure_vars = @ \cup {name}]
    ELSE c

\* lib.rs: collect_from_expr
RECURSIVE collect_from_expr(_, _)
RECURSIVE collect_from_exprs(_, _, _)
RECURSIVE collect_from_props(_, _, _)
collect_from_exprs(c, exprs, i) ==
    IF i > Len(exprs) THEN c
    ELSE collect_from_exprs(collect_from_expr(c, exprs[i]), exprs, i + 1)

\* the Expr::Object arm: key-value values and spreads, no method, no shorthand
collect_from_props(c, props, i) ==
    IF i > Len(props) THEN c
    ELSE collect_from_props(
             CASE props[i].kind = "keyvalue" -> collect_from_expr(c, props[i].value)
               [] props[i].kind = "spread" -> collect_from_expr(c, props[i].expr)
               [] OTHER -> c,
             props, i + 1)

collect_from_expr(c, expr) ==
    CASE expr.kind = "ident" -> collect_from_ident_binding(c, expr.sym)
      [] expr.kind = "call" ->
             collect_from_exprs(IF expr.callee.kind \in {"super", "import"} THEN c
                                ELSE collect_from_expr(c, expr.callee),
                                expr.args, 1)
      [] expr.kind = "member" -> collect_from_expr(c, expr.obj)
      [] expr.kind = "bin" -> collect_from_expr(collect_from_expr(c, expr.left), expr.right)
      [] expr.kind \in {"unary", "paren", "update", "await"} -> collect_from_expr(c, expr.arg)
      [] expr.kind = "cond" ->
             collect_from_expr(collect_from_expr(collect_from_expr(c, expr.test), expr.cons),
                               expr.alt)
      [] expr.kind = "array" -> collect_from_exprs(c, expr.elems, 1)
      [] expr.kind = "object" -> collect_from_props(c, expr.props, 1)
      [] expr.kind = "tpl" -> collect_from_exprs(c, expr.exprs, 1)
      [] expr.kind = "tagged_tpl" ->
             collect_from_exprs(collect_from_expr(c, expr.tag), expr.exprs, 1)
      [] expr.kind \in {"arrow", "fn"} -> c
      [] expr.kind = "assign" ->
             With(collect_from_expr(c, expr.right), LAMBDA r :
                 CASE expr.left.kind = "ident" -> collect_from_ident_binding(r, expr.left.sym)
                   [] expr.left.kind = "member" -> collect_from_expr(r, expr.left.obj)
                   [] OTHER -> r)
      [] OTHER -> c

\* the declarators of a variable declaration: the names, then the initializer
RECURSIVE collect_from_declarators(_, _, _)
collect_from_declarators(c, decls, i) ==
    IF i > Len(decls) THEN c
    ELSE collect_from_declarators(
             collect_from_exprs(
                 [c EXCEPT !.local_vars = @ \cup collect_declared_names(decls[i].name)],
                 decls[i].init, 1),
             decls, i + 1)

\* lib.rs: collect_from_stmt and collect_from_block_stmt
RECURSIVE collect_from_stmt(_, _)
RECURSIVE collect_from_block_stmt(_, _, _)
collect_from_block_stmt(c, stmts, i) ==
    IF i > Len(stmts) THEN c
    ELSE collect_from_block_stmt(collect_from_stmt(c, stmts[i]), stmts, i + 1)

collect_from_stmt(c, stmt) ==
    CASE stmt.kind = "var" -> collect_from_declarators(c, stmt.decls, 1)
      [] stmt.kind = "fn_decl" -> [c EXCEPT !.local_vars = @ \cup {stmt.name}]
      [] stmt.kind = "expr" -> collect_from_expr(c, stmt.expr)
      [] stmt.kind = "if" ->
             collect_from_block_stmt(
                 collect_from_stmt(collect_from_expr(c, stmt.test), stmt.cons), stmt.alt, 1)
      [] stmt.kind = "return" -> collect_from_exprs(c, stmt.arg, 1)
      [] stmt.kind = "block" -> collect_from_block_stmt(c, stmt.stmts, 1)
      [] stmt.kind = "for" ->
             collect_from_stmt(
                 collect_from_exprs(
                     collect_from_exprs(
                         IF stmt.init = <<>> THEN c
                         ELSE IF stmt.init[1].kind = "var"
                         THEN collect_from_declarators(c, stmt.init[1].decls, 1)
                         ELSE collect_from_expr(c, stmt.init[1]),
                         stmt.test, 1),
                     stmt.update, 1),
                 stmt.body)
      [] stmt.kind = "while" -> collect_from_stmt(collect_from_expr(c, stmt.test), stmt.body)
      [] OTHER -> c

\* the collector collect_from_function and collect_from_arrow_expr start from
collector_with(imports, pats) ==
    [closure_vars |-> {}, local_vars |-> imports,
     params |-> UNION {collect_param_names(pats[i]) : i \in 1..Len(pats)}]

\* lib.rs: collect_from_function
collect_from_function(function, imports) ==
    sort(collect_from_block_stmt(collector_with(imports, function.params),
                                 function.body, 1).closure_vars)

\* lib.rs: collect_from_arrow_expr
collect_from_arrow_expr(arrow, imports) ==
    sort((IF arrow.expr_body = <<>>
          THEN collect_from_block_stmt(collector_with(imports, arrow.params),
                                       arrow.body, 1)
          ELSE collect_from_expr(collector_with(imports, arrow.params),
                                 arrow.expr_body[1])).closure_vars)

(***************************************************************************)
(* SpecClosure: a collector run over one function: the module's imports,   *)
(* the parameters, each statement of the body in turn, then the sort       *)
(***************************************************************************)
\* the identifiers an expression refers to, and the names a pattern binds
RefNames == {"a", "b", "B", "Math"}

BoundNames == {"a", "ab"}

Atoms == {Ident(n) : n \in RefNames}

\* f(b), x.p, x + b, !x, (x), x++, await x, x ? b : b, [x], { k: x }, { ...x },
\* { x }, { m() {} }, `${x}`, t`${x}`, () => x, b = x, x = b, x.p = b,
\* new x(b), (x, b), x?.p
CompositeExprs ==
    UNION {{[kind |-> "call", callee |-> x, args |-> <<Ident("b")>>],
            [kind |-> "member", obj |-> x],
            [kind |-> "bin", left |-> x, right |-> Ident("b")],
            [kind |-> "unary", arg |-> x],
            [kind |-> "paren", arg |-> x],
            [kind |-> "update", arg |-> x],
            [kind |-> "await", arg |-> x],
            [kind |-> "cond", test |-> x, cons |-> Ident("b"), alt |-> Ident("b")],
            [kind |-> "array", elems |-> <<x>>],
            [kind |-> "object", props |-> <<[kind |-> "keyvalue", value |-> x]>>],
            [kind |-> "object", props |-> <<[kind |-> "spread", expr |-> x]>>],
            [kind |-> "object", props |-> <<[kind |-> "shorthand", key |-> x.sym]>>],
            [kind |-> "object", props |-> <<[kind |-> "method", key |-> x.sym]>>],
            [kind |-> "tpl", exprs |-> <<x>>],
            [kind |-> "tagged_tpl", tag |-> x, exprs |-> <<Ident("b")>>],
            [kind |-> "arrow", arg |-> x],
            [kind |-> "assign", left |-> Ident("b"), right |-> x],
            [kind |-> "assign", left |-> x, right |-> Ident("b")],
            [kind |-> "assign", left |-> [kind |-> "member", obj |-> x],
                                right |-> Ident("b")],
            [kind |-> "new", callee |-> x, args |-> <<Ident("b")>>],
            [kind |-> "seq", exprs |-> <<x, Ident("b")>>],
            [kind |-> "opt_chain", obj |-> x]} : x \in {Ident("a"), Ident("Math")}}

\* x, [x], { x }, ...x
DeclPats ==
    UNION {{Ident(n),
            [kind |-> "array", elems |-> <<Ident(n)>>],
            [kind |-> "object", props |-> <<[kind |-> "assign", key |-> n]>>],
            [kind |-> "object", props |-> <<[kind |-> "keyvalue", value |-> Ident(n)]>>]} :
               n \in BoundNames}

VarStmts ==
    {[kind |-> "var", decls |-> <<[name |-> p, init |-> i]>>] :
        p \in DeclPats, i \in {<<>>, <<Ident("a")>>, <<Ident("b")>>}}

ExprStmt(e) == [kind |-> "expr", expr |-> e]

\* the statements that hold a statement or an expression of their own
CompoundStmts ==
    UNION {{[kind |-> "return", arg |-> <<x>>],
            [kind |-> "if", test |-> x, cons |-> ExprStmt(Ident("b")), alt |-> <<>>],
            [kind |-> "if", test |-> Ident("b"), cons |-> ExprStmt(Ident("b")),
                            alt |-> <<ExprStmt(x)>>],
            [kind |-> "block", stmts |-> <<ExprStmt(x)>>],
            [kind |-> "for", init |-> <<>>, test |-> <<x>>, update |-> <<>>,
                             body |-> ExprStmt(Ident("b"))],
            [kind |-> "for", init |-> <<[kind |-> "var",
                                         decls |-> <<[name |-> Ident("ab"), init |-> <<x>>]>>]>>,
                             test |-> <<>>, update |-> <<Ident("ab")>>,
                             body |-> ExprStmt(Ident("ab"))],
            [kind |-> "while", test |-> x, body |-> ExprStmt(Ident("b"))],
            [kind |-> "try", block |-> <<ExprStmt(x)>>],
            [kind |-> "for_of", left |-> Ident("ab"), right |-> x,
                                body |-> ExprStmt(Ident("ab"))],
            [kind |-> "throw", arg |-> <<x>>]} : x \in Atoms}
    \cup {[kind |-> "return", arg |-> <<>>]}

ClosureStmts ==
    {ExprStmt(e) : e \in Atoms \cup CompositeExprs}
    \cup VarStmts \cup CompoundStmts
    \cup {[kind |-> "fn_decl", name |-> n] : n \in BoundNames}

\* what follows a first statement: a reference, a declaration of a name
LastStmts ==
    {ExprStmt(x) : x \in Atoms}
    \cup {[kind |-> "fn_decl", name |-> "a"],
          [kind |-> "var", decls |-> <<[name |-> Ident("a"), init |-> <<>>]>>]}

ClosureBodies ==
    {<<s>> : s \in ClosureStmts} \cup {<<s, t>> : s \in ClosureStmts, t \in LastStmts}

\* (), (a), ({ ab }, ...b)
ParamLists ==
    {<<>>, <<Ident("a")>>,
     <<[kind |-> "object", props |-> <<[kind |-> "assign", key |-> "ab"]>>],
       [kind |-> "rest", arg |-> Ident("b")]>>}

ClosureFunctions ==
    {[params |-> ps, body |-> b, module_imports |-> im] :
        ps \in ParamLists, b \in ClosureBodies, im \in {{}, {"B"}}}

InitClosure ==
    /\ mode = "Step"
    /\ filename = "a/a.ts"
    /\ module_specifier = None
    /\ source \in ClosureFunctions
    /\ items = <<>>
    /\ NewTransform
    /\ NewCollector
    /\ id_in = source.body
    /\ id_out = <<>>
    /\ pc = "collect_imports"

Collector == [closure_vars |-> closure_vars, local_vars |-> local_vars, params |-> params]

\* what a collector run leaves alone: the fields of the pass
pass_vars == <<mode, filename, module_specifier, source, items, has_file_step_directive,
               has_file_workflow_directive, diagnostics, tvars, nvars,
               object_property_step_functions, object_property_workflow_conversions,
               hvars>>

\* collect_from_function: collector.local_vars.extend(module_imports)
CollectImports ==
    /\ pc = "collect_imports"
    /\ local_vars' = local_vars \cup source.module_imports
    /\ pc' = "collect_params"
    /\ UNCHANGED <<pass_vars, closure_vars, params, id_in, id_out>>

\* collect_from_function: collect_param_names of every parameter
CollectParams ==
    /\ pc = "collect_params"
    /\ params' = params \cup UNION {collect_param_names(source.params[i]) :
                                        i \in 1..Len(source.params)}
    /\ pc' = "collect_body"
    /\ UNCHANGED <<pass_vars, closure_vars, local_vars, id_in, id_out>>

\* collect_from_block_stmt: collect_from_stmt of the next statement of the body
CollectFromStmt ==
    /\ pc = "collect_body"
    /\ id_in # <<>>
    /\ \E c \in {collect_from_stmt(Collector, Head(id_in))} :
          /\ closure_vars' = c.closure_vars
          /\ local_vars' = c.local_vars
          /\ params' = c.params
    /\ id_in' = Tail(id_in)
    /\ UNCHANGED <<pass_vars, id_out, pc>>

\* collect_from_function: the closure variables as a sorted Vec
CollectSort ==
    /\ pc = "collect_body"
    /\ id_in = <<>>
    /\ id_out' = sort(closure_vars)
    /\ pc' = "collect_done"
    /\ UNCHANGED <<pass_vars, closure_vars, local_vars, params, id_in>>

NextClosure == CollectImports \/ CollectParams \/ CollectFromStmt \/ CollectSort

SpecClosure == InitClosure /\ [][NextClosure]_vars

(***************************************************************************)
(* Closure analyzer claim                                                  *)
(***************************************************************************)
\* the identifiers an expression refers to outside function and arrow bodies
RECURSIVE referenced_in_expr(_)
referenced_in_expr(e) ==
    CASE e.kind = "ident" -> {e.sym}
      [] e.kind \in {"call", "new"} ->
             referenced_in_expr(e.callee)
             \cup UNION {referenced_in_expr(e.args[i]) : i \in 1..Len(e.args)}
      [] e.kind \in {"member", "opt_chain"} -> referenced_in_expr(e.obj)
      [] e.kind \in {"bin", "assign"} ->
             referenced_in_expr(e.left) \cup referenced_in_expr(e.right)
      [] e.kind \in {"unary", "paren", "update", "await"} -> referenced_in_expr(e.arg)
      [] e.kind = "cond" ->
             referenced_in_expr(e.test) \cup referenced_in_expr(e.cons)
             \cup referenced_in_expr(e.alt)
      [] e.kind = "array" -> UNION {referenced_in_expr(e.elems[i]) : i \in 1..Len(e.elems)}
      [] e.kind = "object" ->
             UNION {CASE e.props[i].kind = "keyvalue" -> referenced_in_expr(e.props[i].value)
                      [] e.props[i].kind = "spread" -> referenced_in_expr(e.props[i].expr)
                      [] e.props[i].kind = "shorthand" -> {e.props[i].key}
                      [] OTHER -> {} : i \in 1..Len(e.props)}
      [] e.kind \in {"tpl", "seq"} ->
             UNION {referenced_in_expr(e.exprs[i]) : i \in 1..Len(e.exprs)}
      [] e.kind = "tagged_tpl" ->
             referenced_in_expr(e.tag)
             \cup UNION {referenced_in_expr(e.exprs[i]) : i \in 1..Len(e.exprs)}
      [] OTHER -> {}

referenced_in_exprs(es) == UNION {referenced_in_expr(es[i]) : i \in 1..Len(es)}

\* the identifiers a statement refers to
RECURSIVE referenced_in_stmt(_)
referenced_in_stmts(ss) == UNION {referenced_in_stmt(ss[i]) : i \in 1..Len(ss)}

referenced_in_stmt(s) ==
    CASE s.kind = "var" -> UNION {referenced_in_exprs(s.decls[i].init) : i \in 1..Len(s.decls)}
      [] s.kind = "expr" -> referenced_in_expr(s.expr)
      [] s.kind \in {"return", "throw"} -> referenced_in_exprs(s.arg)
      [] s.kind = "if" ->
             referenced_in_expr(s.test) \cup referenced_in_stmt(s.cons)
             \cup referenced_in_stmts(s.alt)
      [] s.kind = "block" -> referenced_in_stmts(s.stmts)
      [] s.kind = "try" -> referenced_in_stmts(s.block)
      [] s.kind = "for" ->
             UNION {IF s.init[i].kind = "var" THEN referenced_in_stmt(s.init[i])
                    ELSE referenced_in_expr(s.init[i]) : i \in 1..Len(s.init)}
             \cup referenced_in_exprs(s.test) \cup referenced_in_exprs(s.update)
             \cup referenced_in_stmt(s.body)
      [] s.kind = "while" -> referenced_in_expr(s.test) \cup referenced_in_stmt(s.body)
      [] s.kind = "for_of" -> referenced_in_expr(s.right) \cup referenced_in_stmt(s.body)
      [] OTHER -> {}

\* the names a statement declares in the function: variables, destructured
\* bindings, loop variables, function declarations
RECURSIVE declared_in_stmt(_)
declared_in_stmts(ss) == UNION {declared_in_stmt(ss[i]) : i \in 1..Len(ss)}

declared_in_stmt(s) ==
    CASE s.kind = "var" ->
             UNION {collect_idents_from_pat(s.decls[i].name) : i \in 1..Len(s.decls)}
      [] s.kind = "fn_decl" -> {s.name}
      [] s.kind = "if" -> declared_in_stmt(s.cons) \cup declared_in_stmts(s.alt)
      [] s.kind = "block" -> declared_in_stmts(s.stmts)
      [] s.kind = "try" -> declared_in_stmts(s.block)
      [] s.kind = "for" ->
             UNION {IF s.init[i].kind = "var" THEN declared_in_stmt(s.init[i]) ELSE {} :
                    i \in 1..Len(s.init)}
             \cup declared_in_stmt(s.body)
      [] s.kind = "while" -> declared_in_stmt(s.body)
      [] s.kind = "for_of" -> collect_idents_from_pat(s.left) \cup declared_in_stmt(s.body)
      [] OTHER -> {}

\* the free identifiers of the function drawn
free_identifiers ==
    referenced_in_stmts(source.body)
    \ (UNION {collect_idents_from_pat(source.params[i]) : i \in 1..Len(source.params)}
       \cup declared_in_stmts(source.body) \cup GlobalIdentifiers)

\* C20: the closure analyzer returns, sorted and without duplicates, exactly
\* the identifiers referenced in the body (outside nested function and arrow
\* bodies) that are neither parameters, nor locally declared bindings, nor
\* members of the global allow-list
C20_ExactlyTheFreeIdentifiers ==
    pc = "collect_done" =>
        /\ \A i, j \in 1..Len(id_out) :
               i < j => (id_out[i] # id_out[j] /\ str_le(id_out[i], id_out[j]))
        /\ {id_out[i] : i \in 1..Len(id_out)} = free_identifiers

(***************************************************************************)
(* Step functions nested in other functions.  The handlers below walk the  *)
(* bodies of functions; a function is [name or ident, is_async, params,    *)
(* body, at], a statement one of                                           *)
(*   [kind |-> "fn_decl", name, ..]    function name() {..}  ("fn" when it *)
(*                                     is an item of the program)          *)
(*   [kind |-> "var", decls]           const name = init                   *)
(*   [kind |-> "return", arg]          return arg                          *)
(*   [kind |-> "expr", expr]           expr;                               *)
(*   [kind |-> "class", class_name, methods]  class C { m() {..} }         *)
(* st carries the mode of the run next to the StepTransform fields, so     *)
(* that the walks of two modes over one source can be compared.            *)
(***************************************************************************)
unwrap_or_default(o) == IF o.some THEN o.val ELSE ""

\* the identifier left at the site of a nested step function in Step mode
hoisted_name(parent, name) ==
    IF parent.some /\ parent.val # "" THEN parent.val \o "$" \o name ELSE name

\* process_stmt and visit_mut_var_decl, Workflow mode: the name the identity
\* of a nested step function is made of
workflow_step_fn_name(st, name) ==
    IF st.current_workflow_function_name.some
    THEN st.current_workflow_function_name.val \o "/" \o name
    ELSE name

\* visit_mut_expr, Workflow mode: the name the identity of a step expression
\* is made of
parent_step_fn_name(st, name) ==
    IF st.current_parent_function_name.some /\ st.current_parent_function_name.val # ""
    THEN st.current_parent_function_name.val \o "/" \o name
    ELSE name

\* lib.rs: create_step_proxy_reference
create_step_proxy_reference(step_id, vars_captured) ==
    [kind |-> "step_proxy_reference", id |-> step_id, closure_vars |-> vars_captured]

\* a function or an arrow with a block body as the closure analyzer reads it
as_function(f) == [params |-> f.params, body |-> f.body.stmts, expr_body |-> <<>>]

\* one declarator: const name = init
var_decl(name, init) == [kind |-> "var", decls |-> <<[name |-> Ident(name), init |-> <<init>>]>>]

\* self.nested_step_functions.push((name, fn_expr, span, closure_vars, was_arrow, parent))
push_nested(st, name, f, vars_captured, was_arrow) ==
    [st EXCEPT !.nested_step_functions =
        Append(@, [fn_name |-> name, fn_expr |-> f, span |-> fn_span(f),
                   closure_vars |-> vars_captured, was_arrow |-> was_arrow,
                   parent_workflow_name |-> unwrap_or_default(st.current_parent_function_name)])]

needing_id(st, name) == [st EXCEPT !.workflow_functions_needing_id = Append(@, name)]

RECURSIVE process_stmt(_, _)
RECURSIVE process_stmts(_, _, _)
RECURSIVE visit_mut_block_stmt(_, _)
RECURSIVE visit_mut_function_nested(_, _)
RECURSIVE visit_mut_arrow_expr_nested(_, _)
RECURSIVE visit_mut_fn_decl_nested(_, _)
RECURSIVE visit_mut_expr_nested(_, _)
RECURSIVE visit_declarators(_, _, _)
RECURSIVE visit_declarator_inits(_, _, _)
RECURSIVE visit_methods(_, _, _)

\* the loop of visit_mut_block_stmt; what is returned is [st, stmts]
process_stmts(st, stmts, i) ==
    IF i > Len(stmts) THEN [st |-> st, stmts |-> stmts]
    ELSE With(process_stmt(st, stmts[i]), LAMBDA r :
             process_stmts(r.st, [stmts EXCEPT ![i] = r.stmt], i + 1))

\* lib.rs: visit_mut_block_stmt; what is returned is [st, f] for the function f
\* whose body the block is
visit_mut_block_stmt(st, f) ==
    With(process_stmts(st, f.body.stmts, 1), LAMBDA r :
        [st |-> r.st, f |-> [f EXCEPT !.body.stmts = r.stmts]])

\* what visit_mut_function and visit_mut_arrow_expr restore
restore_context(st, old) ==
    [st EXCEPT !.in_step_function = old.in_step_function,
               !.in_workflow_function = old.in_workflow_function,
               !.current_workflow_function_name = old.current_workflow_function_name,
               !.in_module_level = old.in_module_level]

\* lib.rs: visit_mut_function over a body that holds statements
visit_mut_function_nested(st, f) ==
    With(has_use_step_directive(f.body), LAMBDA has_step :
    With(has_use_workflow_directive(f.body), LAMBDA has_workflow :
    With(visit_mut_block_stmt(
             [AddDiags(st, has_step.diags \cup has_workflow.diags) EXCEPT
                 !.in_step_function = @ \/ has_step.res,
                 !.in_workflow_function = @ \/ has_workflow.res,
                 !.in_module_level = FALSE], f), LAMBDA r :
        [st |-> restore_context(r.st, st), f |-> r.f])))

\* lib.rs: visit_mut_arrow_expr over a body that holds statements
visit_mut_arrow_expr_nested(st, f) ==
    With(has_use_step_directive_arrow(f.body), LAMBDA has_step :
    With(has_use_workflow_directive_arrow(f.body), LAMBDA has_workflow :
    With(visit_mut_block_stmt(
             [AddDiags(st, has_step.diags \cup has_workflow.diags) EXCEPT
                 !.in_step_function = @ \/ has_step.res,
                 !.in_workflow_function = @ \/ has_workflow.res,
                 !.in_module_level = FALSE], f), LAMBDA r :
        [st |-> restore_context(r.st, st), f |-> r.f])))

\* lib.rs: visit_mut_fn_decl; what is returned is [st, stmt]
visit_mut_fn_decl_nested(st, f) ==
    With(has_step_directive(f, FALSE), LAMBDA hs :
    With(has_workflow_directive(f, FALSE), LAMBDA hw :
    With(IF hs.res
         THEN IF ~f.is_async
              THEN [st |-> AddDiags(st, hs.diags \cup {NonAsyncFunction(fn_span(f), "use step")}),
                    f |-> f]
              ELSE LET st1 == [AddDiags(st, hs.diags) EXCEPT
                                  !.step_function_names = @ \cup {f.name}]
                   IN  IF st.mode = "Step"
                       THEN [st |-> create_registration_call(st1, f.name, fn_span(f)),
                             f |-> [f EXCEPT !.body = remove_use_step_directive(@)]]
                       ELSE [st |-> st1, f |-> f]
         ELSE IF hw.res
         THEN IF ~f.is_async
              THEN [st |-> AddDiags(st, hs.diags \cup hw.diags
                               \cup {NonAsyncFunction(fn_span(f), "use workflow")}),
                    f |-> f]
              ELSE [st |-> [AddDiags(st, hs.diags \cup hw.diags) EXCEPT
                               !.workflow_function_names = @ \cup {f.name}],
                    f |-> f]
         ELSE [st |-> AddDiags(st, hs.diags \cup hw.diags), f |-> f],
         LAMBDA first :
    With(visit_mut_function_nested(
             [first.st EXCEPT !.current_parent_function_name = Some(f.name)], first.f),
         LAMBDA r :
        [st |-> [r.st EXCEPT !.current_parent_function_name =
                                 st.current_parent_function_name],
         stmt |-> r.f]))))

\* lib.rs: process_stmt, Stmt::Decl(Decl::Fn)
process_stmt_fn_decl(st, f) ==
    With(should_transform_function(f, FALSE), LAMBDA sf :
    LET st0 == AddDiags(st, sf.diags)
    IN  IF sf.res
        THEN LET st1 == [st0 EXCEPT !.step_function_names = @ \cup {f.name}]
                 cloned == [f EXCEPT !.body = remove_use_step_directive(@)]
             IN  IF ~st.in_module_level
                 THEN CASE st.mode = "Step" ->
                             [st |-> push_nested(st1, f.name, cloned,
                                         collect_from_function(as_function(cloned),
                                                               st.module_imports), FALSE),
                              stmt |-> var_decl(f.name,
                                           Ident(hoisted_name(st.current_parent_function_name,
                                                              f.name)))]
                        [] st.mode = "Workflow" ->
                             [st |-> st1,
                              stmt |-> var_decl(f.name,
                                           create_step_proxy_reference(
                                               create_id(Self,
                                                         Some(workflow_step_fn_name(st, f.name)),
                                                         lo(fn_span(f)), FALSE),
                                               collect_from_function(as_function(f),
                                                                     st.module_imports)))]
                        [] st.mode = "Client" -> [st |-> st1, stmt |-> cloned]
                 ELSE CASE st.mode = "Step" ->
                             visit_mut_fn_decl_nested(
                                 create_registration_call(st1, f.name, fn_span(f)), cloned)
                        [] st.mode = "Workflow" ->
                             [st |-> st1,
                              stmt |-> [f EXCEPT !.body =
                                           return_proxy_body(create_id(Self, Some(f.name),
                                                                       lo(fn_span(f)), FALSE))]]
                        [] st.mode = "Client" -> visit_mut_fn_decl_nested(st1, cloned)
        ELSE With(should_transform_workflow_function(f, FALSE), LAMBDA sw :
             LET st1 == AddDiags(st0, sw.diags)
             IN  IF sw.res
                 THEN LET st2 == [st1 EXCEPT !.workflow_function_names = @ \cup {f.name}]
                      IN  CASE st.mode = "Step" ->
                                 With(visit_mut_fn_decl_nested(st2, f), LAMBDA visited :
                                     [st |-> needing_id(visited.st, f.name),
                                      stmt |-> [visited.stmt EXCEPT
                                                   !.body = throw_body(f.name, f.name)]])
                            [] st.mode = "Workflow" ->
                                 visit_mut_fn_decl_nested(
                                     st2, [f EXCEPT !.body = remove_use_workflow_directive(@)])
                            [] st.mode = "Client" ->
                                 visit_mut_fn_decl_nested(
                                     needing_id(st2, f.name),
                                     [f EXCEPT !.body = throw_body(f.name, f.name)])
                 ELSE visit_mut_fn_decl_nested(st1, f)))

\* the name visit_mut_expr gives a step expression, and the counter after it
step_expr_name(st, e) ==
    IF e.kind = "fn_expr" /\ e.ident # <<>> THEN e.ident[1]
    ELSE "_anonymousStep" \o ToString(st.anonymous_fn_counter)

counted(st, e) ==
    IF e.kind = "fn_expr" /\ e.ident # <<>> THEN st
    ELSE [st EXCEPT !.anonymous_fn_counter = @ + 1]

\* the closure variables of a function expression or an arrow
closure_vars_of(st, e) ==
    IF e.kind = "arrow" THEN collect_from_arrow_expr(as_function(e), st.module_imports)
    ELSE collect_from_function(as_function(e), st.module_imports)

has_step_directive_of(e) ==
    IF e.kind = "arrow" THEN has_step_directive_arrow(e, FALSE) ELSE has_step_directive(e, FALSE)

has_workflow_directive_of(e) ==
    IF e.kind = "arrow" THEN has_workflow_directive_arrow(e, FALSE)
    ELSE has_workflow_directive(e, FALSE)

\* fn_expr.visit_mut_children_with / arrow.visit_mut_children_with reached
\* through visit_mut_expr: the function's or the arrow's own handler
visit_function_expr(st, e) ==
    IF e.kind = "arrow" THEN visit_mut_arrow_expr_nested(st, e)
    ELSE visit_mut_function_nested(st, e)

\* lib.rs: visit_mut_class_expr of a class whose methods carry no directive:
\* the binding name visit_mut_var_decl has left is taken, the class is
\* flagged under it (under its own name when none is left)
visit_mut_class_expr_nested(st, c) ==
    LET internal_class_name == IF c.ident # <<>> THEN c.ident[1] ELSE "AnonymousClass"
        registration_name == IF st.current_class_binding_name.some
                             THEN st.current_class_binding_name.val
                             ELSE internal_class_name
    IN  With(visit_methods(
                 [st EXCEPT !.current_class_binding_name = None,
                            !.current_class_name = Some(internal_class_name),
                            !.classes_needing_serialization =
                                IF has_custom_serialization_methods(c)
                                THEN @ \cup {registration_name} ELSE @], c.methods, 1),
             LAMBDA r :
            [st |-> [r.st EXCEPT !.current_class_name = st.current_class_name],
             expr |-> [c EXCEPT !.methods = r.methods]])

\* lib.rs: visit_mut_expr, Expr::Fn and Expr::Arrow: a step expression inside
\* a function is hoisted (Step) or replaced by a proxy reference (Workflow);
\* a class expression is reached through expr.visit_mut_children_with;
\* what is returned is [st, expr]
visit_mut_expr_nested(st, e) ==
    IF e.kind = "class_expr" THEN visit_mut_class_expr_nested(st, e)
    ELSE IF e.kind \notin {"fn_expr", "arrow"} THEN [st |-> st, expr |-> e]
    ELSE
    With(has_step_directive_of(e), LAMBDA hs :
    LET st0 == AddDiags(st, hs.diags)
        children(s, x) ==
            With(visit_function_expr(s, x), LAMBDA r : [st |-> r.st, expr |-> r.f])
    IN  IF ~hs.res THEN children(st0, e)
        ELSE IF ~e.is_async
        THEN children(AddDiags(st0, {NonAsyncFunction(fn_span(e), "use step")}), e)
        ELSE IF st.in_module_level THEN children(st0, e)
        ELSE LET name == step_expr_name(st, e)
                 st1 == [counted(st0, e) EXCEPT !.step_function_names = @ \cup {name}]
                 cloned == [e EXCEPT !.body = remove_use_step_directive(@)]
             IN  CASE st.mode = "Step" ->
                        [st |-> push_nested(st1, name, cloned, closure_vars_of(st, cloned),
                                            e.kind = "arrow"),
                         expr |-> Ident(hoisted_name(st.current_parent_function_name, name))]
                   [] st.mode = "Workflow" ->
                        [st |-> st1,
                         expr |-> create_step_proxy_reference(
                                      create_id(Self, Some(parent_step_fn_name(st, name)),
                                                lo(fn_span(e)), FALSE),
                                      closure_vars_of(st, e))]
                   [] st.mode = "Client" -> children(st1, cloned))

\* lib.rs: visit_mut_var_decl, one declarator whose initializer is a function
\* expression or an arrow; what is returned is [st, init]
visit_function_declarator(st, name, e) ==
    With(has_step_directive_of(e), LAMBDA hs :
    With(has_workflow_directive_of(e), LAMBDA hw :
    LET st0 == AddDiags(st, hs.diags \cup hw.diags)
        step_id == create_id(Self, Some(name), lo(fn_span(e)), FALSE)
    IN  IF hs.res
        THEN IF ~e.is_async
             THEN [st |-> AddDiags(st0, {NonAsyncFunction(fn_span(e), "use step")}),
                   init |-> e]
             ELSE LET st1 == [st0 EXCEPT !.step_function_names = @ \cup {name}]
                      cloned == [e EXCEPT !.body = remove_use_step_directive(@)]
                  IN  IF e.kind = "arrow" /\ ~st.in_module_level
                      THEN CASE st.mode = "Step" ->
                                  [st |-> push_nested(st1, name, cloned,
                                                      closure_vars_of(st, cloned), TRUE),
                                   init |-> Ident(hoisted_name(
                                                st.current_parent_function_name, name))]
                             [] st.mode = "Workflow" ->
                                  [st |-> st1,
                                   init |-> create_step_proxy_reference(
                                                create_id(Self,
                                                          Some(workflow_step_fn_name(st, name)),
                                                          lo(fn_span(e)), FALSE),
                                                closure_vars_of(st, e))]
                             [] st.mode = "Client" -> [st |-> st1, init |-> cloned]
                      ELSE CASE st.mode = "Step" ->
                                  [st |-> create_registration_call(st1, name, fn_span(e)),
                                   init |-> cloned]
                             [] st.mode = "Workflow" ->
                                  [st |-> st1,
                                   init |-> [e EXCEPT !.body =
                                                IF e.kind = "arrow" THEN proxy_expr_body(step_id)
                                                ELSE return_proxy_body(step_id)]]
                             [] st.mode = "Client" -> [st |-> st1, init |-> cloned]
        ELSE IF hw.res
        THEN IF ~e.is_async
             THEN [st |-> AddDiags(st0, {NonAsyncFunction(fn_span(e), "use workflow")}),
                   init |-> e]
             ELSE LET st1 == [st0 EXCEPT !.workflow_function_names = @ \cup {name}]
                  IN  IF st.mode = "Workflow"
                      THEN [st |-> st1,
                            init |-> [e EXCEPT !.body = remove_use_workflow_directive(@)]]
                      ELSE [st |-> needing_id(st1, name),
                            init |-> [e EXCEPT !.body = throw_body(name, name)]]
        ELSE With((IF e.kind = "arrow" THEN visit_mut_block_stmt(
                                                [st0 EXCEPT
                                                    !.current_parent_function_name = Some(name),
                                                    !.in_module_level = FALSE], e)
                   ELSE visit_mut_function_nested(
                            [st0 EXCEPT !.current_parent_function_name = Some(name),
                                        !.in_module_level = FALSE], e)), LAMBDA r :
                 [st |-> [r.st EXCEPT !.current_parent_function_name =
                                          st.current_parent_function_name,
                                      !.in_module_level = st.in_module_level],
                  init |-> r.f])))

\* lib.rs: visit_mut_var_decl, the loop over the declarators
visit_declarators(st, decls, i) ==
    IF i > Len(decls) THEN [st |-> st, decls |-> decls]
    ELSE IF decls[i].init # <<>> /\ decls[i].name.kind = "ident"
            /\ decls[i].init[1].kind \in {"fn_expr", "arrow"}
    THEN With(visit_function_declarator(st, decls[i].name.sym, decls[i].init[1]), LAMBDA r :
             visit_declarators(r.st, [decls EXCEPT ![i].init = <<r.init>>], i + 1))
    ELSE IF decls[i].init # <<>> /\ decls[i].name.kind = "ident"
            /\ decls[i].init[1].kind = "class_expr"
    THEN visit_declarators([st EXCEPT !.current_class_binding_name =
                                          Some(decls[i].name.sym)], decls, i + 1)
    ELSE visit_declarators(st, decls, i + 1)

\* var_decl.visit_mut_children_with: visit_mut_expr of every initializer
visit_declarator_inits(st, decls, i) ==
    IF i > Len(decls) THEN [st |-> st, decls |-> decls]
    ELSE IF decls[i].init # <<>>
    THEN With(visit_mut_expr_nested(st, decls[i].init[1]), LAMBDA r :
             visit_declarator_inits(r.st, [decls EXCEPT ![i].init = <<r.expr>>], i + 1))
    ELSE visit_declarator_inits(st, decls, i + 1)

\* lib.rs: visit_mut_var_decl: the declarators, then the children
visit_mut_var_decl_nested(st, stmt) ==
    With(visit_declarators(st, stmt.decls, 1), LAMBDA first :
    With(visit_declarator_inits(first.st, first.decls, 1), LAMBDA r :
        [st |-> r.st, stmt |-> [stmt EXCEPT !.decls = r.decls]]))

\* lib.rs: visit_mut_class_method of a method that carries no directive:
\* method.visit_mut_children_with
visit_methods(st, methods, i) ==
    IF i > Len(methods) THEN [st |-> st, methods |-> methods]
    ELSE With(visit_mut_function_nested(st, methods[i]), LAMBDA r :
             visit_methods(r.st, [methods EXCEPT ![i] = r.f], i + 1))

\* lib.rs: visit_mut_class_decl of a class whose methods carry no directive
visit_mut_class_decl_nested(st, c) ==
    With(visit_methods(
             [st EXCEPT !.current_class_name = Some(c.class_name),
                        !.classes_needing_serialization =
                            IF has_custom_serialization_methods(c)
                            THEN @ \cup {c.class_name} ELSE @], c.methods, 1),
         LAMBDA r :
        [st |-> [r.st EXCEPT !.current_class_name = st.current_class_name],
         stmt |-> [c EXCEPT !.methods = r.methods]])

\* lib.rs: process_stmt
process_stmt(st, stmt) ==
    CASE stmt.kind \in {"fn_decl", "fn"} -> process_stmt_fn_decl(st, stmt)
      [] stmt.kind = "var" -> visit_mut_var_decl_nested(st, stmt)
      [] stmt.kind = "class" -> visit_mut_class_decl_nested(st, stmt)
      [] stmt.kind = "expr" ->
             With(visit_mut_expr_nested(st, stmt.expr), LAMBDA r :
                 [st |-> r.st, stmt |-> [stmt EXCEPT !.expr = r.expr]])
      [] stmt.kind = "return" /\ stmt.arg # <<>> ->
             With(visit_mut_expr_nested(st, stmt.arg[1]), LAMBDA r :
                 [st |-> r.st, stmt |-> [stmt EXCEPT !.arg = <<r.expr>>]])
      [] OTHER -> [st |-> st, stmt |-> stmt]


\* lib.rs: visit_mut_export_decl, Decl::Fn: export [async] function name() {..}
\* with the statements of its body walked; what is returned is [st, stmt]
visit_mut_export_decl_nested(st, f) ==
    With(IF f.name \in st.workflow_function_names THEN [res |-> TRUE, diags |-> {}]
         ELSE has_workflow_directive(f, TRUE), LAMBDA wf :
    With(has_step_directive(f, TRUE), LAMBDA hs :
    LET is_workflow_function == wf.res
        st0 == IF is_workflow_function
               THEN [AddDiags(st, wf.diags) EXCEPT
                        !.in_workflow_function = TRUE,
                        !.current_workflow_function_name = Some(f.name)]
               ELSE AddDiags(st, wf.diags)
        st1 == AddDiags(st0, hs.diags)
    IN
    With(IF hs.res
         THEN IF ~f.is_async
              THEN [st |-> AddDiags(st1, {NonAsyncFunction(fn_span(f), "use step")}),
                    stmt |-> f]
              ELSE LET st2 == [st1 EXCEPT !.step_function_names = @ \cup {f.name}]
                       f1 == [f EXCEPT !.body = remove_use_step_directive(@)]
                   IN  CASE st.mode = "Step" ->
                              visit_mut_fn_decl_nested(
                                  create_registration_call(st2, f.name, fn_span(f)), f1)
                         [] st.mode = "Workflow" ->
                              [st |-> [st2 EXCEPT !.step_exports_to_convert =
                                          Append(@, [name |-> f.name,
                                                     id |-> create_id(Self, Some(f.name),
                                                                      lo(fn_span(f)), FALSE)])],
                               stmt |-> f1]
                         [] st.mode = "Client" -> visit_mut_fn_decl_nested(st2, f1)
         ELSE IF is_workflow_function
         THEN With(IF ~f.is_async
                   THEN [st |-> AddDiags(st1, {NonAsyncFunction(fn_span(f), "use workflow")}),
                         f |-> f]
                   ELSE LET st2 == [st1 EXCEPT !.workflow_function_names = @ \cup {f.name}]
                        IN  CASE st.mode = "Step" -> [st |-> st2, f |-> f]
                              [] st.mode = "Workflow" ->
                                   [st |-> st2,
                                    f |-> [f EXCEPT !.body = remove_use_workflow_directive(@)]]
                              [] st.mode = "Client" ->
                                   With(has_use_workflow_directive(f.body),
                                        LAMBDA has_inline_directive :
                                       [st |-> needing_id(
                                                   AddDiags(st2, has_inline_directive.diags),
                                                   f.name),
                                        f |-> IF has_inline_directive.res
                                              THEN [f EXCEPT !.body = throw_body(f.name, f.name)]
                                              ELSE [f EXCEPT !.body =
                                                       remove_use_workflow_directive(@)]]),
                   LAMBDA first :
              With(visit_mut_fn_decl_nested(first.st, first.f), LAMBDA visited :
                  IF st.mode = "Step"
                  THEN [st |-> needing_id(visited.st, f.name),
                        stmt |-> [visited.stmt EXCEPT !.body = throw_body(f.name, f.name)]]
                  ELSE visited))
         ELSE visit_mut_fn_decl_nested(st1, f),
         LAMBDA r :
        [st |-> [r.st EXCEPT !.in_workflow_function = st.in_workflow_function,
                             !.current_workflow_function_name =
                                 st.current_workflow_function_name],
         stmt |-> r.stmt])))

\* item.visit_mut_with(self) for an item of a program whose functions hold statements
visit_nested_item(st, item) ==
    IF item.kind = "export_fn" THEN visit_mut_export_decl_nested(st, item)
    ELSE process_stmt(st, item)

\* lib.rs: visit_mut_module_items, the loop over the items
RECURSIVE visit_nested_items_loop(_, _, _, _)
visit_nested_items_loop(st, its, i, inserts) ==
    IF i > Len(its) THEN [st |-> st, items |-> its, inserts |-> inserts]
    ELSE With(visit_nested_item(AddDiags(st, validate_export(its[i])), its[i]), LAMBDA r :
             visit_nested_items_loop(r.st, [its EXCEPT ![i] = r.stmt], i + 1,
                                     inserts \o inserts_after(r.st, r.stmt, i)))

(***************************************************************************)
(* SpecNested: the pass over a program of one item that encloses one step  *)
(* function: visit_mut_program (3535-3800 for a module, 4398-4486 for a    *)
(* script) with the walk of process_stmt, visit_mut_var_decl and           *)
(* visit_mut_expr through the bodies.  The bodies hold no this, super or   *)
(* arguments.                                                              *)
(***************************************************************************)
Directive(value, at) == Spanned(<< [kind |-> "lit", val |-> value] >>, at)

Block(stmts) == [wrapped |-> FALSE, stmts |-> stmts]

\* what the step function refers to: nothing, or a variable of its parent
StepRefs == {<<>>, <<ExprStmt(Ident("a"))>>}

StepBodies == {Block(Directive("use step", 3) \o refs) : refs \in StepRefs}

\* async function s() {"use step"; ..} and function s() {"use step"; ..}
StepFnDecls ==
    [kind : {"fn_decl"}, name : {"s"}, is_async : BOOLEAN, params : {<<>>},
     body : StepBodies, at : {3}]

\* async () => {"use step"; ..} and async function () {"use step"; ..}
StepFnExprs ==
    [kind : {"arrow", "fn_expr"}, ident : {<<>>}, is_async : BOOLEAN, params : {<<>>},
     body : StepBodies, at : {3}]

\* the statement the step function is nested as: a declaration, a variable
\* bound to the expression, the expression returned
StepSites ==
    StepFnDecls
    \cup {var_decl("s", e) : e \in StepFnExprs}
    \cup {[kind |-> "return", arg |-> <<e>>] : e \in StepFnExprs}

\* the statements of the enclosing function: the site itself, or an
\* ordinary function declaration g around it
InnerStmts ==
    {<<site>> : site \in StepSites}
    \cup {<< [kind |-> "fn_decl", name |-> "g", is_async |-> TRUE, params |-> <<>>,
              body |-> Block(<<site>>), at |-> 2] >> : site \in StepSites}

WorkflowDirectives == {<<>>, Directive("use workflow", 1)}

\* [export] async function w() {["use workflow";] ..}
EnclosingFns(inner) ==
    {[kind |-> k, name |-> "w", is_async |-> TRUE, params |-> <<>>,
      body |-> Block(d \o inner), at |-> 1] :
        k \in {"fn", "export_fn"}, d \in WorkflowDirectives}

\* const w = async function () {..} and const w = async () => {..}
EnclosingVars(inner) ==
    {[kind |-> "var", name |-> "w", is_async |-> TRUE, at |-> 1,
      decls |-> << [name |-> Ident("w"),
                    init |-> << [kind |-> k, ident |-> <<>>, is_async |-> TRUE,
                                 params |-> <<>>, body |-> Block(d \o inner),
                                 at |-> 1] >>] >>] :
        k \in {"fn_expr", "arrow"}, d \in WorkflowDirectives}

\* class C { async m() {..} }
EnclosingClasses(inner) ==
    {[kind |-> "class", class_name |-> "C", hooks |-> {}, at |-> 1,
      methods |-> << [name |-> "m", is_async |-> TRUE, params |-> <<>>,
                      body |-> Block(inner), at |-> 1] >>]}

NestedPrograms ==
    UNION {{<<item>> : item \in EnclosingFns(inner) \cup EnclosingVars(inner)
                                 \cup EnclosingClasses(inner)} : inner \in InnerStmts}

\* an export declaration makes the program a module
is_module_only(its) == \E i \in 1..Len(its) : its[i].kind = "export_fn"

InitNested ==
    /\ mode \in Modes
    /\ filename = "a.ts"
    /\ module_specifier = None
    /\ source \in NestedPrograms
    /\ items = source
    /\ NewTransform
    /\ NewCollector
    /\ id_in = NoIdInput
    /\ id_out = ""
    /\ pc \in {"scan", "script"}
    /\ pc = "script" => ~is_module_only(source)

\* the fields the hoisting handlers write, after a handler has run
TakeNested(st) ==
    /\ TakeSt(st)
    /\ nested_step_functions' = st.nested_step_functions
    /\ anonymous_fn_counter' = st.anonymous_fn_counter

\* lib.rs: visit_mut_module_items, the loop over the items
VisitNested ==
    /\ pc = "visit"
    /\ \E r \in {visit_nested_items_loop(CurrentSt, items, 1, <<>>)} :
           /\ items' = r.items
           /\ items_to_insert' = r.inserts
           /\ TakeNested(r.st)
    /\ pc' = "insert"
    /\ UNCHANGED <<nvars, object_property_step_functions,
                   object_property_workflow_conversions, module_imports, kvars, mode,
                   filename, module_specifier, source, has_file_step_directive,
                   has_file_workflow_directive, id_in, id_out>>

\* lib.rs: visit_mut_program of a script: program.visit_mut_children_with(self),
\* then classes_for_manifest = classes_needing_serialization
VisitNestedScript ==
    /\ pc = "script"
    /\ \E r \in {process_stmts(CurrentSt, items, 1)} :
           /\ items' = r.stmts
           /\ TakeNested([r.st EXCEPT !.classes_for_manifest =
                                          r.st.classes_needing_serialization])
    /\ pc' = "script_program"
    /\ UNCHANGED <<nvars, object_property_step_functions,
                   object_property_workflow_conversions, module_imports, kvars, mode,
                   filename, module_specifier, source, has_file_step_directive,
                   has_file_workflow_directive, items_to_insert, id_in, id_out>>

NextNested ==
    \/ ModuleDirectives
    \/ VisitNested
    \/ FinishModuleItems
    \/ FinishProgram
    \/ VisitNestedScript
    \/ FinishScript

SpecNested == InitNested /\ [][NextNested]_vars

(***************************************************************************)
(* Nested step claims                                                      *)
(***************************************************************************)
\* lib.rs: StepTransform::new(mode, ..), after the head of the pass has
\* collected the declared identifiers of the source
NewSt(m) ==
    [diagnostics |-> {},
     step_function_names |-> {},
     workflow_function_names |-> {},
     registered_functions |-> {},
     registration_calls |-> <<>>,
     step_exports_to_convert |-> <<>>,
     workflow_functions_needing_id |-> <<>>,
     in_step_function |-> FALSE,
     in_workflow_function |-> FALSE,
     in_module_level |-> TRUE,
     current_workflow_function_name |-> None,
     current_parent_function_name |-> None,
     current_class_name |-> None,
     current_class_binding_name |-> None,
     classes_needing_serialization |-> {},
     classes_for_manifest |-> {},
     static_method_step_registrations |-> <<>>,
     instance_method_step_registrations |-> <<>>,
     static_step_methods_to_strip |-> <<>>,
     instance_step_methods_to_strip |-> <<>>,
     static_method_workflow_registrations |-> <<>>,
     workflow_export_to_const_name |-> None,
     declared_identifiers |-> collect_declared_identifiers(source),
     default_workflow_exports |-> <<>>,
     mode |-> m,
     nested_step_functions |-> <<>>,
     anonymous_fn_counter |-> 0,
     module_imports |-> {}]

\* the identity strings the step proxies of a program are called with
RECURSIVE proxy_ids_in_stmts(_)
RECURSIVE proxy_ids_in_stmt(_)
RECURSIVE proxy_ids_in_expr(_)
proxy_ids_in_stmts(stmts) == UNION {proxy_ids_in_stmt(stmts[i]) : i \in 1..Len(stmts)}

proxy_ids_in_expr(e) ==
    CASE e.kind = "step_proxy_reference" -> {e.id}
      [] e.kind \in {"arrow", "fn_expr"} -> proxy_ids_in_stmts(e.body.stmts)
      [] OTHER -> {}

proxy_ids_in_stmt(stmt) ==
    CASE stmt.kind \in {"return_proxy", "proxy_expr"} -> {stmt.val}
      [] stmt.kind \in {"fn", "fn_decl", "export_fn"} -> proxy_ids_in_stmts(stmt.body.stmts)
      [] stmt.kind = "var" /\ "decls" \in DOMAIN stmt ->
             UNION {proxy_ids_in_expr(stmt.decls[i].init[1]) : i \in 1..Len(stmt.decls)}
      [] stmt.kind = "return" -> UNION {proxy_ids_in_expr(stmt.arg[i]) : i \in 1..Len(stmt.arg)}
      [] stmt.kind = "expr" -> proxy_ids_in_expr(stmt.expr)
      [] stmt.kind = "class" /\ "methods" \in DOMAIN stmt ->
             UNION {proxy_ids_in_stmts(stmt.methods[i].body.stmts) :
                        i \in 1..Len(stmt.methods)}
      [] OTHER -> {}

\* the walk of the source in Workflow mode
workflow_mode_walk == visit_nested_items_loop(NewSt("Workflow"), source, 1, <<>>)

workflow_proxy_ids == proxy_ids_in_stmts(workflow_mode_walk.items)

\* the identity strings registerStepFunction is called with in the output
registered_step_ids ==
    {items[i].id : i \in {j \in 1..Len(items) : items[j].kind = "registerStepFunction"}}

StepModeDone == mode = "Step" /\ pc \in {"done", "script_done"}

\* C18: for the step function nested in the program, the identity string
\* registered in Step mode equals the identity string its proxy is called
\* with in Workflow mode, whatever function encloses it
C18_SameIdentityInBothModes ==
    StepModeDone => \A x \in registered_step_ids : \A y \in workflow_proxy_ids : x = y

\* the identifiers the pass has left where a step function stood: the
\* initializer of  const s = <identifier>  and the argument of
\* return <identifier>  (no initializer and no returned value of the source
\* is an identifier)
RECURSIVE left_identifiers_in_stmts(_)
RECURSIVE left_identifiers_in_stmt(_)
RECURSIVE left_identifiers_in_expr(_)
left_identifiers_in_stmts(stmts) ==
    UNION {left_identifiers_in_stmt(stmts[i]) : i \in 1..Len(stmts)}

left_identifiers_in_expr(e) ==
    CASE e.kind = "ident" -> {e.sym}
      [] e.kind \in {"arrow", "fn_expr"} -> left_identifiers_in_stmts(e.body.stmts)
      [] OTHER -> {}

left_identifiers_in_stmt(stmt) ==
    CASE stmt.kind \in {"fn", "fn_decl", "export_fn"} ->
             left_identifiers_in_stmts(stmt.body.stmts)
      [] stmt.kind = "var" /\ "decls" \in DOMAIN stmt ->
             UNION {left_identifiers_in_expr(stmt.decls[i].init[1]) :
                        i \in 1..Len(stmt.decls)}
      [] stmt.kind = "return" ->
             UNION {left_identifiers_in_expr(stmt.arg[i]) : i \in 1..Len(stmt.arg)}
      [] stmt.kind = "class" /\ "methods" \in DOMAIN stmt ->
             UNION {left_identifiers_in_stmts(stmt.methods[i].body.stmts) :
                        i \in 1..Len(stmt.methods)}
      [] OTHER -> {}

\* the names the emitted program declares at its top level
top_level_declarations == UNION {collect_declared_of(items[i]) : i \in 1..Len(items)}

\* C19: in Step mode every identifier left where a nested step function stood
\* names a declaration at the top level of the emitted program, for a module
\* and for a script alike
C19_LeftIdentifiersAreDeclared ==
    StepModeDone => left_identifiers_in_stmts(items) \subseteq top_level_declarations

(***************************************************************************)
(* SpecDce: the pass over a module of imports, helper declarations and one *)
(* function that may be a step or a workflow function, whose bodies refer  *)
(* to the imports and to one another; in Workflow and Client mode          *)
(* visit_mut_module_items ends with remove_dead_code (5286)                *)
(***************************************************************************)
Call(name) == ExprStmt([kind |-> "call", callee |-> Ident(name), args |-> <<>>])

ImportOf(names) ==
    [kind |-> "import", val |-> "", at |-> 0,
     specifiers |-> [i \in 1..Len(names) |-> [kind |-> "named", local |-> names[i]]]]

\* nothing, import 'm', import { x } from 'm', import { x, y } from 'm'
DceImports == {<<>>, <<ImportOf(<<>>)>>, <<ImportOf(<<"x">>)>>, <<ImportOf(<<"x", "y">>)>>}

PlainFn(name, stmts, at) ==
    [kind |-> "fn", name |-> name, is_async |-> FALSE, params |-> <<>>,
     body |-> Block(stmts), at |-> at]

\* nothing, function h() {}, function h() { x() }, const h = x
DceHelpers ==
    {<<>>, <<PlainFn("h", <<>>, 1)>>, <<PlainFn("h", <<Call("x")>>, 1)>>,
     << [kind |-> "var", name |-> "h", is_async |-> FALSE, at |-> 1,
         decls |-> << [name |-> Ident("h"), init |-> <<Ident("x")>>] >>] >>}

\* nothing, function g() { h() }
DceCallers == {<<>>, <<PlainFn("g", <<Call("h")>>, 2)>>}

\* what the last function refers to: nothing, a helper, an import, itself
DceRefs == {<<>>, <<Call("h")>>, <<Call("x")>>, <<Call("f")>>}

DceDirectives == {<<>>, Directive("use step", 3), Directive("use workflow", 3)}

\* [export] async function f() {["use step" | "use workflow";] ..}
DceFns ==
    {[kind |-> k, name |-> "f", is_async |-> TRUE, params |-> <<>>,
      body |-> Block(d \o refs), at |-> 3] :
        k \in {"fn", "export_fn"}, d \in DceDirectives, refs \in DceRefs}

DcePrograms ==
    {i \o h \o g \o <<f>> : i \in DceImports, h \in DceHelpers, g \in DceCallers, f \in DceFns}

InitDce ==
    /\ mode \in Modes
    /\ filename = "a.ts"
    /\ module_specifier = None
    /\ source \in DcePrograms
    /\ items = source
    /\ NewTransform
    /\ NewCollector
    /\ id_in = NoIdInput
    /\ id_out = ""
    /\ pc = "scan"

\* lib.rs: visit_mut_module_items (4605-4646): the local names of the imports
collect_module_imports(its) ==
    UNION {IF its[i].kind = "import" /\ "specifiers" \in DOMAIN its[i]
           THEN {its[i].specifiers[j].local : j \in 1..Len(its[i].specifiers)}
           ELSE {} : i \in 1..Len(its)}

\* lib.rs: visit_mut_module_items: the imports collected, then the loop over
\* the items
VisitModule ==
    /\ pc = "visit"
    /\ module_imports' = module_imports \cup collect_module_imports(items)
    /\ \E r \in {visit_nested_items_loop(
                     [CurrentSt EXCEPT !.module_imports =
                                           @ \cup collect_module_imports(items)],
                     items, 1, <<>>)} :
           /\ items' = r.items
           /\ items_to_insert' = r.inserts
           /\ TakeNested(r.st)
    /\ pc' = "insert"
    /\ UNCHANGED <<nvars, object_property_step_functions,
                   object_property_workflow_conversions, kvars, mode,
                   filename, module_specifier, source, has_file_step_directive,
                   has_file_workflow_directive, id_in, id_out>>

NextDce == ModuleDirectives \/ VisitModule \/ FinishModuleItems \/ FinishProgram

SpecDce == InitDce /\ [][NextDce]_vars

(***************************************************************************)
(* Dead code elimination claims                                            *)
(***************************************************************************)
\* the identifiers the statements refer to, the bodies of the functions
\* they declare included
RECURSIVE remaining_references(_)
remaining_references(stmts) ==
    UNION {CASE stmts[i].kind \in {"fn", "fn_decl", "export_fn"} ->
                    remaining_references(stmts[i].body.stmts)
             [] stmts[i].kind \in {"var", "export_var"} /\ "decls" \in DOMAIN stmts[i] ->
                    UNION {referenced_in_exprs(stmts[i].decls[j].init) :
                               j \in 1..Len(stmts[i].decls)}
             [] stmts[i].kind = "expr" /\ "expr" \in DOMAIN stmts[i] ->
                    referenced_in_expr(stmts[i].expr)
             [] stmts[i].kind \in {"workflowId", "workflowRegistration"} ->
                    {stmts[i].name}
             [] OTHER -> {} : i \in 1..Len(stmts)}

\* the pass has run remove_dead_code
DceDone == mode \in {"Workflow", "Client"} /\ pc \in {"program", "done"}

\* C21: in Workflow and Client mode every name the source binds at its top
\* level (a declaration, an import specifier) that the code left in the
\* program still refers to is still bound there
C21_ReferencedNamesSurvive ==
    DceDone =>
        \A n \in collect_declared_identifiers(source) :
            n \in remaining_references(items) => n \in top_level_declarations

\* C23: in Workflow mode remove_dead_code run again on the items it has left
\* leaves them as they are
C23_SecondRunChangesNothing ==
    (mode = "Workflow" /\ pc = "program") => remove_dead_code(CurrentSt, items) = items

\* a run whose elimination took more than one turn: the helper h went in one
\* turn, the import of x that only h used went in the next
C23_Witness ==
    /\ mode = "Workflow"
    /\ pc = "program"
    /\ {"h", "x"} \subseteq collect_declared_identifiers(source)
    /\ "x" \in remaining_references(source)
    /\ top_level_declarations \cap {"h", "x"} = {}

(***************************************************************************)
(* SpecDceTurns: the pass of SpecDce with the loop of remove_dead_code     *)
(* taken one turn at a time.  The loop runs inside one sequential call, so *)
(* a turn that can be taken is taken: weak fairness of DeadCodeTurn.       *)
(***************************************************************************)
\* lib.rs: visit_mut_module_items after the loop over the items, up to the
\* call of remove_dead_code
InsertAndConvert ==
    /\ pc = "insert"
    /\ items' = convert_step_items(
                    CurrentSt, insert_reversed(items, items_to_insert, Len(items_to_insert)))
    /\ items_to_insert' = <<>>
    /\ workflow_functions_needing_id' = <<>>
    /\ pc' = "dce"
    /\ UNCHANGED <<nvars, ovars, mode, filename, module_specifier, source, has_file_step_directive,
                   has_file_workflow_directive, diagnostics, step_function_names,
                   workflow_function_names, registered_functions, registration_calls,
                   step_exports_to_convert, in_step_function, in_workflow_function,
                   in_module_level, current_workflow_function_name,
                   current_parent_function_name, cvars, id_in, id_out>>

\* lib.rs: remove_dead_code: the return in Step mode, else one turn of the loop
DeadCodeTurn ==
    /\ pc = "dce"
    /\ \E kept \in {IF mode \in {"Workflow", "Client"}
                    THEN remove_dead_code_pass(CurrentSt, items)
                    ELSE items} :
           /\ items' = kept
           /\ pc' = IF mode \notin {"Workflow", "Client"} \/ loop_is_left(items, kept)
                    THEN "program"
                    ELSE "dce"
    /\ UNCHANGED <<nvars, ovars, mode, filename, module_specifier, source, has_file_step_directive,
                   has_file_workflow_directive, diagnostics, step_function_names,
                   workflow_function_names, registered_functions, registration_calls,
                   step_exports_to_convert, in_step_function, in_workflow_function,
                   in_module_level, current_workflow_function_name,
                   current_parent_function_name, cvars, items_to_insert,
                   workflow_functions_needing_id, id_in, id_out>>

NextDceTurns ==
    \/ ModuleDirectives
    \/ VisitModule
    \/ InsertAndConvert
    \/ DeadCodeTurn
    \/ FinishProgram

SpecDceTurns == InitDce /\ [][NextDceTurns]_vars /\ WF_vars(DeadCodeTurn)

\* C24: once remove_dead_code is entered, the loop comes to a turn that
\* removes no item and no import specifier, and is left
C24_LoopIsLeft == (pc = "dce") ~> (pc = "program")

\* between two turns: the helper h has been removed, the import of x that
\* only h used is still there for the next turn
C24_Witness ==
    /\ pc = "dce"
    /\ mode \in {"Workflow", "Client"}
    /\ "h" \in collect_declared_identifiers(source)
    /\ "h" \notin top_level_declarations
    /\ "x" \in top_level_declarations
    /\ "x" \notin remaining_references(items)

(***************************************************************************)
(* Work list claim                                                         *)
(***************************************************************************)
\* the run is over, for a module or for a script
RunDone == pc \in {"done", "script_done"}

\* C22: at the end of a run, in every mode and for a module and a script
\* alike, every list the walk queued hoisting or registration work in is
\* empty: what was pushed has been consumed
C22_WorkListsDrained ==
    RunDone =>
        /\ nested_step_functions = <<>>
        /\ object_property_step_functions = <<>>
        /\ registration_calls = <<>>
        /\ static_method_step_registrations = <<>>
        /\ instance_method_step_registrations = <<>>
        /\ static_method_workflow_registrations = <<>>
        /\ classes_needing_serialization = {}

(***************************************************************************)
(* SpecHoist: the pass of SpecNested over a module of two declarations:    *)
(* one that encloses one or two step functions named s, and a function     *)
(* whose name may be the name a hoisted declaration is given               *)
(***************************************************************************)
\* async function s() {"use step"} and const s = async () => {"use step"}
HoistSites(at) ==
    {[kind |-> "fn_decl", name |-> "s", is_async |-> TRUE, params |-> <<>>,
      body |-> Block(Directive("use step", at)), at |-> at],
     var_decl("s", [kind |-> "arrow", ident |-> <<>>, is_async |-> TRUE, params |-> <<>>,
                    body |-> Block(Directive("use step", at)), at |-> at])}

\* one step function, or one followed by a function g that holds another
HoistInner ==
    {<<site>> : site \in HoistSites(3)}
    \cup {<<site, [kind |-> "fn_decl", name |-> "g", is_async |-> TRUE, params |-> <<>>,
                   body |-> Block(<<other>>), at |-> 2]>> :
              site \in HoistSites(3), other \in HoistSites(4)}

\* function s() {}, function w$s() {}, function u() {}
HoistNeighbours == {PlainFn(n, <<>>, 5) : n \in {"s", "w$s", "u"}}

HoistPrograms ==
    UNION {{<<item, other>> : item \in EnclosingFns(inner) \cup EnclosingVars(inner)
                                       \cup EnclosingClasses(inner),
                              other \in HoistNeighbours} : inner \in HoistInner}

InitHoist ==
    /\ mode \in Modes
    /\ filename = "a.ts"
    /\ module_specifier = None
    /\ source \in HoistPrograms
    /\ items = source
    /\ NewTransform
    /\ NewCollector
    /\ id_in = NoIdInput
    /\ id_out = ""
    /\ pc = "scan"

NextHoist == ModuleDirectives \/ VisitNested \/ FinishModuleItems \/ FinishProgram

SpecHoist == InitHoist /\ [][NextHoist]_vars

(***************************************************************************)
(* Hoisting claims                                                         *)
(***************************************************************************)
\* the names the item at position i of the output declares
declared_at(i) == collect_declared_of(items[i])

\* C25: in Step mode the declarations hoisted to the top level get names
\* that differ from one another and from every name the module declared
\* there: no two items of the output declare the same name
C25_HoistedNamesAreFresh ==
    (mode = "Step" /\ pc = "done") =>
        \A i, j \in 1..Len(items) : i # j => declared_at(i) \cap declared_at(j) = {}

\* the stepId values of the metadata annotations of the output
manifest_step_ids ==
    UNION {{s.stepId : s \in items[i].steps} :
               i \in {j \in 1..Len(items) : items[j].kind = "metadata"}}

\* C26: in Step mode the stepId values the metadata annotation records are
\* the identity strings of the registerStepFunction calls of the same output
C26_ManifestIdsAreRegisteredIds ==
    (mode = "Step" /\ pc = "done") => manifest_step_ids = registered_step_ids

(***************************************************************************)
(* SpecOrder: the pass over a module of up to three declarations in any    *)
(* order: a workflow function w that holds a step function s, a variable a *)
(* initialised with an object literal of step properties, a step function  *)
(* t; with or without a leading import.  The declaration at position p of  *)
(* the source has the span 10p, what it holds the spans 10p + 1, 10p + 2.  *)
(***************************************************************************)
\* [export] async function w() {"use workflow"; <s>}
OrderNested(p) ==
    {[kind |-> k, name |-> "w", is_async |-> TRUE, params |-> <<>>,
      body |-> Block(Directive("use workflow", 10 * p) \o <<site>>), at |-> 10 * p] :
        k \in {"fn", "export_fn"}, site \in HoistSites(10 * p + 1)}

StepProp(key, kind, at) ==
    [key |-> <<key>>,
     value |-> [kind |-> kind, is_async |-> TRUE, body |-> StepBody(at), at |-> at]]

\* const a = { x: async () => {"use step"} }, { async x() {"use step"} } and
\* { x: async () => {"use step"}, y: async () => {"use step"} }
OrderObjects(p) ==
    {[kind |-> "var", name |-> "a", is_async |-> FALSE, at |-> 10 * p,
      init |-> [kind |-> "object", props |-> props]] :
        props \in {<<StepProp("x", "arrow", 10 * p + 1)>>,
                   <<StepProp("x", "method", 10 * p + 1)>>,
                   <<StepProp("x", "arrow", 10 * p + 1),
                     StepProp("y", "arrow", 10 * p + 2)>>}}

\* [export] async function t() {"use step"}
OrderSteps(p) ==
    {[kind |-> k, name |-> "t", is_async |-> TRUE, params |-> <<>>,
      body |-> Block(Directive("use step", 10 * p)), at |-> 10 * p] :
        k \in {"fn", "export_fn"}}

\* the declarations of one of the three shapes at position p
OrderDecls(shape, p) ==
    CASE shape = "nested" -> OrderNested(p)
      [] shape = "object" -> OrderObjects(p)
      [] shape = "step" -> OrderSteps(p)

OrderShapes ==
    {<<a, b>> : a, b \in {"nested", "object", "step"}}
    \cup {<<a, b, c>> : a, b, c \in {"nested", "object", "step"}}

\* two or three declarations of different shapes
OrderPerms == {sh \in OrderShapes : \A p, q \in 1..Len(sh) : p # q => sh[p] # sh[q]}

OrderBodies(sh) ==
    IF Len(sh) = 2
    THEN {<<d, e>> : d \in OrderDecls(sh[1], 1), e \in OrderDecls(sh[2], 2)}
    ELSE {<<d, e, f>> : d \in OrderDecls(sh[1], 1), e \in OrderDecls(sh[2], 2),
                        f \in OrderDecls(sh[3], 3)}

OrderPrograms ==
    UNION {{i \o ds : i \in {<<>>, <<ImportOf(<<"x">>)>>}, ds \in OrderBodies(sh)} :
              sh \in OrderPerms}

InitOrder ==
    /\ mode \in Modes
    /\ filename = "a.ts"
    /\ module_specifier = None
    /\ source \in OrderPrograms
    /\ items = source
    /\ NewTransform
    /\ NewCollector
    /\ id_in = NoIdInput
    /\ id_out = ""
    /\ pc = "scan"

\* the declarator of an object item as visit_mut_var_decl reads it: at module
\* level, under no workflow function
as_object_decl(item) ==
    [kind |-> "var", workflow |-> NoName, name |-> <<item.name>>, init |-> item.init]

\* the fields the object-literal handlers thread
ObjectSt(st, queued, conversions) ==
    [diagnostics |-> st.diagnostics,
     object_property_step_functions |-> queued,
     object_property_workflow_conversions |-> conversions,
     current_workflow_function_name |-> NoName]

\* lib.rs: visit_mut_module_items, the loop over the items: a variable
\* initialised with an object literal goes through visit_mut_var_decl
\* (6456-6469), every other item through process_stmt or visit_mut_export_decl
RECURSIVE visit_order_items_loop(_, _, _, _, _)
visit_order_items_loop(st, ost, its, i, inserts) ==
    IF i > Len(its) THEN [st |-> st, ost |-> ost, items |-> its, inserts |-> inserts]
    ELSE IF "init" \in DOMAIN its[i]
    THEN With(visit_mut_var_decl_object([ost EXCEPT !.diagnostics = st.diagnostics],
                                        as_object_decl(its[i])),
              LAMBDA r :
             visit_order_items_loop([st EXCEPT !.diagnostics = r.st.diagnostics], r.st,
                                    [its EXCEPT ![i].init = r.decl.init], i + 1, inserts))
    ELSE With(visit_nested_item(AddDiags(st, validate_export(its[i])), its[i]), LAMBDA r :
             visit_order_items_loop(r.st, ost, [its EXCEPT ![i] = r.stmt], i + 1,
                                    inserts \o inserts_after(r.st, r.stmt, i)))

VisitOrder ==
    /\ pc = "visit"
    /\ module_imports' = module_imports \cup collect_module_imports(items)
    /\ \E r \in {visit_order_items_loop(
                     [CurrentSt EXCEPT !.module_imports =
                                           @ \cup collect_module_imports(items)],
                     ObjectSt(CurrentSt, object_property_step_functions,
                              object_property_workflow_conversions),
                     items, 1, <<>>)} :
           /\ items' = r.items
           /\ items_to_insert' = r.inserts
           /\ TakeNested(r.st)
           /\ object_property_step_functions' = r.ost.object_property_step_functions
           /\ object_property_workflow_conversions' =
                  r.ost.object_property_workflow_conversions
    /\ pc' = "insert"
    /\ UNCHANGED <<nvars, kvars, mode, filename, module_specifier, source,
                   has_file_step_directive, has_file_workflow_directive, id_in, id_out>>

\* lib.rs: visit_mut_program, what the object-literal properties queued add
object_hoisting ==
    LET infos == [i \in 1..Len(object_property_step_functions) |->
                     hoisting_info(Self, object_property_step_functions[i])]
    IN  [hoisted |-> [i \in 1..Len(infos) |-> hoisted_decl(infos[i])],
         calls |-> [i \in 1..Len(infos) |-> object_registration_call(infos[i])],
         steps |-> object_metadata(object_property_workflow_conversions).steps]

\* lib.rs: visit_mut_program after visit_mut_children_with: the work lists,
\* those of the object-literal properties included, are drained into the
\* declarations hoisted and the statements pushed
FinishProgramWithObjects ==
    /\ pc = "program"
    /\ classes_for_manifest' = classes_needing_serialization
    /\ items' = finish_program_with(
                    [CurrentSt EXCEPT !.classes_for_manifest = classes_needing_serialization],
                    items, object_hoisting)
    /\ registration_calls' = IF mode = "Step" THEN <<>> ELSE registration_calls
    /\ nested_step_functions' = IF mode = "Step" THEN <<>> ELSE nested_step_functions
    /\ object_property_step_functions' =
           IF mode = "Step" THEN <<>> ELSE object_property_step_functions
    /\ static_method_step_registrations' =
           IF mode = "Step" THEN <<>> ELSE static_method_step_registrations
    /\ instance_method_step_registrations' =
           IF mode = "Step" THEN <<>> ELSE instance_method_step_registrations
    /\ static_step_methods_to_strip' =
           IF mode = "Workflow" THEN <<>> ELSE static_step_methods_to_strip
    /\ instance_step_methods_to_strip' =
           IF mode = "Workflow" THEN <<>> ELSE instance_step_methods_to_strip
    /\ classes_needing_serialization' = {}
    /\ static_method_workflow_registrations' = <<>>
    /\ pc' = "done"
    /\ UNCHANGED <<nvars, object_property_workflow_conversions, anonymous_fn_counter,
                   module_imports, kvars, mode, filename, module_specifier, source,
                   has_file_step_directive, has_file_workflow_directive, diagnostics,
                   step_function_names, workflow_function_names, registered_functions,
                   step_exports_to_convert, workflow_functions_needing_id,
                   in_step_function, in_workflow_function,
                   in_module_level, current_workflow_function_name,
                   current_parent_function_name, items_to_insert, current_class_name,
                   current_class_binding_name,
                   workflow_export_to_const_name, id_in, id_out>>

NextOrder ==
    \/ ModuleDirectives
    \/ VisitOrder
    \/ FinishModuleItems
    \/ FinishProgramWithObjects

SpecOrder == InitOrder /\ [][NextOrder]_vars

(***************************************************************************)
(* Ordering claims                                                         *)
(***************************************************************************)
\* the items of the output apart from the metadata annotation, which is put
\* in front of the first item that is no import after the hoisting
program_items == SelectSeq(items, LAMBDA it : it.kind # "metadata")

\* the length of the leading block of imports
leading_imports(its) ==
    CHOOSE k \in 0..Len(its) :
        /\ \A i \in 1..k : its[i].kind = "import"
        /\ k < Len(its) => its[k + 1].kind # "import"

\* a declaration the source does not hold
is_hoisted(item) ==
    /\ item.kind \in {"fn", "var", "hoisted_var"}
    /\ item.name \notin collect_declared_identifiers(source)

hoisted_positions == {i \in 1..Len(program_items) : is_hoisted(program_items[i])}

\* where in the source the function of a hoisted declaration stood
function_at(item) ==
    CASE item.kind = "hoisted_var" -> item.init.at
      [] item.kind = "var" -> item.decls[1].init[1].at
      [] OTHER -> item.at

\* the imports of the items
import_positions(its) == {i \in 1..Len(its) : its[i].kind = "import"}

registration_positions ==
    {i \in 1..Len(program_items) : program_items[i].kind = "registerStepFunction"}

\* where in the source the function a registration call names stood
registered_at(call) ==
    function_at(program_items[CHOOSE i \in 1..Len(program_items) :
                                  /\ "name" \in DOMAIN program_items[i]
                                  /\ program_items[i].kind # "registerStepFunction"
                                  /\ program_items[i].name = call.name])

\* C28: in Step mode the registration calls stand in the order in which the
\* walk met their step functions, whatever the shapes of the functions
C28_RegistrationsInDiscoveryOrder ==
    (mode = "Step" /\ pc = "done") =>
        \A i, j \in registration_positions :
            i < j => registered_at(program_items[i]) < registered_at(program_items[j])


(***************************************************************************)
(* Diagnostics claim                                                       *)
(***************************************************************************)
\* the reports of the pass over the source in mode m: those of the scan of
\* the module's directives, which reads no mode, and those of the walk
diagnostics_in_mode(m) ==
    IF pc = "script_done"
    THEN process_stmts(NewSt(m), source, 1).st.diagnostics
    ELSE check_module_directive(source).diags
         \cup check_module_workflow_directive(source).diags
         \cup visit_nested_items_loop(NewSt(m), source, 1, <<>>).st.diagnostics

\* C29: the pass reports the same diagnostics (kind and span) over a program
\* in Step, Workflow and Client mode
C29_SameDiagnosticsInEveryMode ==
    RunDone => \A m \in Modes : diagnostics_in_mode(m) = diagnostics


(***************************************************************************)
(* SpecContext: the loop of visit_mut_module_items over a module of two    *)
(* items, one turn per item: a variable declaration whose one or two       *)
(* declarators are initialised with class expressions, and a function or a *)
(* class that encloses a step function.  id_in is the index of the item    *)
(* the loop visits next.                                                   *)
(***************************************************************************)
\* class {}, class _A {}, with or without the two serialization hooks
ClassExprs ==
    [kind : {"class_expr"}, ident : {<<>>, <<"_A">>},
     hooks : {{}, SerializationSymbols}, methods : {<<>>}, at : {5}]

ClassDeclarator(name, c) == [name |-> Ident(name), init |-> <<c>>]

\* var A = class ..  and  var A = class .., B = class ..
ClassVars ==
    {[kind |-> "var", name |-> "A", is_async |-> FALSE, at |-> 5, decls |-> ds] :
        ds \in {<<ClassDeclarator("A", c)>> : c \in ClassExprs}
               \cup {<<ClassDeclarator("A", c), ClassDeclarator("B", d)>> :
                         c, d \in ClassExprs}}

\* the functions and the class that enclose a step function
ContextEnclosing ==
    UNION {EnclosingFns(inner) \cup EnclosingClasses(inner) : inner \in InnerStmts}

ContextPrograms ==
    {<<v, e>> : v \in ClassVars, e \in ContextEnclosing}
    \cup {<<e, v>> : v \in ClassVars, e \in ContextEnclosing}

InitContext ==
    /\ mode \in Modes
    /\ filename = "a.ts"
    /\ module_specifier = None
    /\ source \in ContextPrograms
    /\ items = source
    /\ NewTransform
    /\ NewCollector
    /\ id_in = 1
    /\ id_out = ""
    /\ pc = "scan"

\* lib.rs: visit_mut_module_items, one turn of the loop over the items:
\* the export is validated, the item visited, what is to be inserted after
\* it noted
VisitItem ==
    /\ pc = "visit"
    /\ id_in \in 1..Len(items)
    /\ \E r \in {visit_nested_item(AddDiags(CurrentSt, validate_export(items[id_in])),
                                   items[id_in])} :
           /\ items' = [items EXCEPT ![id_in] = r.stmt]
           /\ items_to_insert' = items_to_insert \o inserts_after(r.st, r.stmt, id_in)
           /\ TakeNested(r.st)
    /\ id_in' = id_in + 1
    /\ pc' = IF id_in = Len(items) THEN "insert" ELSE "visit"
    /\ UNCHANGED <<nvars, object_property_step_functions,
                   object_property_workflow_conversions, module_imports, kvars, mode,
                   filename, module_specifier, source, has_file_step_directive,
                   has_file_workflow_directive, id_out>>

NextContext == ModuleDirectives \/ VisitItem

SpecContext == InitContext /\ [][NextContext]_vars

(***************************************************************************)
(* Traversal context claim                                                 *)
(***************************************************************************)
\* the traversal-context fields of the visitor
traversal_context ==
    <<in_step_function, in_workflow_function, in_module_level,
      current_workflow_function_name, current_parent_function_name, current_class_name,
      current_class_binding_name>>

\* what the fields hold when the loop enters its first item (StepTransform::new)
entry_context == <<FALSE, FALSE, TRUE, None, None, None, None>>

\* the declarators of the items the loop has visited whose initializer is a
\* class expression that defines both hooks
visited_class_declarators ==
    UNION {{source[i].decls[k] : k \in {j \in 1..Len(source[i].decls) :
                                          /\ source[i].decls[j].init[1].kind = "class_expr"
                                          /\ has_custom_serialization_methods(
                                                 source[i].decls[j].init[1])}} :
              i \in {j \in 1..(id_in - 1) : "decls" \in DOMAIN source[j]}}

\* C30: after the visit of each item the traversal-context fields hold what
\* they held on entry to it, and no class expression has been visited under
\* a binding name set for another declarator: the classes flagged are those
\* of the declarators whose own class defines the hooks
C30_ContextRestoredNeverLeaked ==
    pc \in {"visit", "insert"} =>
        /\ traversal_context = entry_context
        /\ classes_needing_serialization
               = {d.name.sym : d \in visited_class_declarators}

\* the first half of C30 alone: the fields are restored after each item
C30_ContextRestored ==
    pc \in {"visit", "insert"} => traversal_context = entry_context

====
